---- MODULE Spec2Model ----
(***************************************************************************)
(* A model of the evm-tetris interpreter (src/src/evm): the 256-bit word,  *)
(* the Bytecode, Stack, Gas, Memory, AccessList and Storage components and *)
(* the Evm that owns them, with one action per public operation.           *)
(***************************************************************************)
EXTENDS Integers, Sequences, FiniteSets, TLC

(***************************************************************************)
(* U256.  A word is the big-endian base-256 digit string of its value      *)
(* without leading zero bytes (zero is the empty string): one string per   *)
(* value in 0 .. 2^256-1.  Bytes32 is the 32-byte big-endian array that    *)
(* to_big_endian writes and from_big_endian reads.                         *)
(***************************************************************************)
WORD_BYTES == 32

Byte == 0..255

RECURSIVE StripZeros(_)
StripZeros(b) ==
    IF b = <<>> THEN <<>>
    ELSE IF b[1] = 0 THEN StripZeros(Tail(b)) ELSE b

\* U256::from_big_endian: the value of at most 32 big-endian bytes
from_big_endian(b) == StripZeros(b)

\* U256::to_big_endian: the 32 big-endian bytes of a word
Bytes32(w) ==
    [i \in 1..WORD_BYTES |->
        IF i <= WORD_BYTES - Len(w) THEN 0 ELSE w[i - (WORD_BYTES - Len(w))]]

\* U256::byte(i): byte i counted from the least significant one
byte(w, i) == Bytes32(w)[WORD_BYTES - i]

\* the word built from little-endian digits d[0..31]
FromLE(d) == from_big_endian([i \in 1..WORD_BYTES |-> d[WORD_BYTES - i]])

U256_zero == <<>>

U256_one == <<1>>

is_zero(w) == w = <<>>

RECURSIVE U256_from(_)
\* U256::from(n) for a machine integer n >= 0
U256_from(n) == IF n = 0 THEN <<>> ELSE Append(U256_from(n \div 256), n % 256)

\* the words that fit three bytes are the ones the model converts to Int
SMALL_BYTES == 3

IsSmall(w) == Len(w) <= SMALL_BYTES

RECURSIVE BytesToInt(_)
BytesToInt(b) == IF b = <<>> THEN 0 ELSE BytesToInt(SubSeq(b, 1, Len(b) - 1)) * 256 + b[Len(b)]

\* the value of a small word
AsInt(w) == BytesToInt(w)

\* Ord for U256: -1 (Less), 0 (Equal), 1 (Greater)
RECURSIVE CmpBytes(_, _)
CmpBytes(a, b) ==
    IF a = <<>> THEN 0
    ELSE IF a[1] < b[1] THEN -1
    ELSE IF a[1] > b[1] THEN 1
    ELSE CmpBytes(Tail(a), Tail(b))

cmp(x, y) ==
    IF Len(x) < Len(y) THEN -1
    ELSE IF Len(x) > Len(y) THEN 1
    ELSE CmpBytes(x, y)

Reverse(s) == [i \in 1..Len(s) |-> s[Len(s) + 1 - i]]

\* the one element of a singleton set
TheOne(S) == CHOOSE v \in S : TRUE

\* the first n elements of a sequence, all of them when it has fewer
Take(s, n) == SubSeq(s, 1, IF n < Len(s) THEN n ELSE Len(s))

\* the elements of a sequence after the first n
Drop(s, n) == SubSeq(s, n + 1, Len(s))

\* sum of two little-endian digit strings of any length, with a carry in: the
\* low halves first, their carry going into the high halves
RECURSIVE AddLE(_, _, _)
AddLE(a, b, c) ==
    LET n == IF Len(a) > Len(b) THEN Len(a) ELSE Len(b)
        h == n \div 2
    IN  IF n = 0 THEN (IF c = 0 THEN <<>> ELSE <<c>>)
        ELSE IF n = 1
        THEN LET x == IF a = <<>> THEN 0 ELSE a[1]
                 y == IF b = <<>> THEN 0 ELSE b[1]
                 sum == x + y + c
             IN  IF sum < 256 THEN <<sum>> ELSE <<sum % 256, sum \div 256>>
        ELSE TheOne({Take(low, h) \o AddLE(Drop(a, h), Drop(b, h),
                                           IF Len(low) > h THEN low[h + 1] ELSE 0) :
                        low \in {AddLE(Take(a, h), Take(b, h), c)}})

\* difference a - b of little-endian digit strings, for a >= b, with a borrow
\* in: a plus the complement of b, the carry out dropped
SubLE(a, b, bw) ==
    Take(AddLE(a, [i \in 1..Len(a) |-> 255 - (IF i <= Len(b) THEN b[i] ELSE 0)], 1 - bw),
         Len(a))

\* a little-endian digit string times a machine integer m, with a carry in
RECURSIVE MulSmallLE(_, _, _)
MulSmallLE(a, m, c) ==
    LET h == Len(a) \div 2
    IN  IF a = <<>> THEN (IF c = 0 THEN <<>> ELSE MulSmallLE(<<0>>, m, c))
        ELSE IF Len(a) = 1
        THEN LET prod == a[1] * m + c
             IN  IF prod < 256 THEN <<prod>>
                 ELSE <<prod % 256>> \o MulSmallLE(<<0>>, m, prod \div 256)
        ELSE TheOne({Take(low, h) \o MulSmallLE(Drop(a, h), m,
                                                (IF Len(low) > h THEN low[h + 1] ELSE 0)
                                                + (IF Len(low) > h + 1 THEN 256 * low[h + 2]
                                                   ELSE 0)) :
                        low \in {MulSmallLE(Take(a, h), m, c)}})

\* unbounded naturals as stripped big-endian digit strings
BigAdd(x, y) == StripZeros(Reverse(AddLE(Reverse(x), Reverse(y), 0)))

BigSub(x, y) == StripZeros(Reverse(SubLE(Reverse(x), Reverse(y), 0)))

BigMulSmall(x, m) == StripZeros(Reverse(MulSmallLE(Reverse(x), m, 0)))

RECURSIVE BigMulAcc(_, _, _)
\* x * y, one digit of y at a time from the most significant
BigMulAcc(x, y, acc) ==
    IF y = <<>> THEN acc
    ELSE IF Len(y) = 1 THEN BigAdd(BigMulSmall(acc, 256), BigMulSmall(x, y[1]))
    ELSE LET h == Len(y) \div 2
         IN  TheOne({BigMulAcc(x, Drop(y, h), sum) : sum \in {BigMulAcc(x, Take(y, h), acc)}})

BigMul(x, y) == BigMulAcc(x, y, <<>>)

\* the value modulo 2^256: the 32 least significant bytes
Low32(b) ==
    IF Len(b) <= WORD_BYTES THEN StripZeros(b)
    ELSE StripZeros(SubSeq(b, Len(b) - WORD_BYTES + 1, Len(b)))

TwoTo256 == <<1>> \o [i \in 1..WORD_BYTES |-> 0]

U256_MAX == [i \in 1..WORD_BYTES |-> 255]

\* U256::overflowing_add(..).0
overflowing_add(x, y) == Low32(BigAdd(x, y))

\* U256::overflowing_sub(..).0
overflowing_sub(x, y) ==
    IF cmp(x, y) >= 0 THEN BigSub(x, y) ELSE Low32(BigSub(BigAdd(x, TwoTo256), y))

\* U256::overflowing_mul(..).0
overflowing_mul(x, y) == Low32(BigMul(x, y))

Pow2(k) == IF k = 0 THEN 1 ELSE IF k = 1 THEN 2 ELSE IF k = 2 THEN 4 ELSE IF k = 3 THEN 8
           ELSE IF k = 4 THEN 16 ELSE IF k = 5 THEN 32 ELSE IF k = 6 THEN 64 ELSE 128

\* binary long division, the k low bits of one digit d of the dividend: the
\* quotient q and remainder r so far, extended by those bits
RECURSIVE DivDigit(_, _, _, _, _)
DivDigit(d, b, k, q, r) ==
    IF k = 0 THEN [q |-> q, r |-> r]
    ELSE LET r2 == BigAdd(BigAdd(r, r), U256_from((d \div Pow2(k - 1)) % 2))
             ge == cmp(r2, b) >= 0
         IN  TheOne({DivDigit(d, b, k - 1, q3, r3) :
                        q3 \in {BigAdd(BigAdd(q, q), IF ge THEN <<1>> ELSE <<>>)},
                        r3 \in {IF ge THEN BigSub(r2, b) ELSE r2}})

\* binary long division of a by b # 0, one digit of a at a time: the digits of
\* the first half of a, then those of the second half
RECURSIVE DivBits(_, _, _, _)
DivBits(a, b, q, r) ==
    IF a = <<>> THEN [q |-> q, r |-> r]
    ELSE IF Len(a) = 1 THEN DivDigit(a[1], b, 8, q, r)
    ELSE LET h == Len(a) \div 2
         IN  TheOne({DivBits(SubSeq(a, h + 1, Len(a)), b, st.q, st.r) :
                        st \in {DivBits(SubSeq(a, 1, h), b, q, r)}})

\* U256 / U256 (the divisor is not zero where the interpreter divides)
div(x, y) == DivBits(x, y, <<>>, <<>>).q

\* U256 % U256
rem(x, y) == DivBits(x, y, <<>>, <<>>).r

RECURSIVE And8(_, _, _)
\* bitwise and of two bytes, k bits at a time from the least significant
And8(x, y, k) ==
    IF k = 0 THEN 0
    ELSE ((x % 2) * (y % 2)) + 2 * And8(x \div 2, y \div 2, k - 1)

\* U256 & U256
bitand(x, y) ==
    from_big_endian([i \in 1..WORD_BYTES |-> And8(Bytes32(x)[i], Bytes32(y)[i], 8)])

\* U256 | U256
bitor(x, y) ==
    from_big_endian([i \in 1..WORD_BYTES |->
        Bytes32(x)[i] + Bytes32(y)[i] - And8(Bytes32(x)[i], Bytes32(y)[i], 8)])

\* U256 ^ U256
bitxor(x, y) ==
    from_big_endian([i \in 1..WORD_BYTES |->
        Bytes32(x)[i] + Bytes32(y)[i] - 2 * And8(Bytes32(x)[i], Bytes32(y)[i], 8)])

\* !U256
bitnot(x) == from_big_endian([i \in 1..WORD_BYTES |-> 255 - Bytes32(x)[i]])

\* U256 << n
shl(x, n) ==
    IF n >= 8 * WORD_BYTES THEN U256_zero
    ELSE Low32(BigMulSmall(x, Pow2(n % 8)) \o [i \in 1..(n \div 8) |-> 0])

\* U256::low_u64: the word of the 8 least significant bytes
low_u64(w) == from_big_endian(SubSeq(Bytes32(w), WORD_BYTES - 7, WORD_BYTES))

\* SignExt::is_neg for U256
is_neg(w) == 127 < byte(w, 31)

\* SignExt::neg for U256
neg(w) ==
    IF is_zero(w) THEN w
    ELSE BigAdd(BigSub(U256_MAX, w), U256_from(1))

\* signed_cmp with two negative words compared like two non-negative ones
signed_cmp_unreversed(x, y) ==
    IF is_neg(x) /\ ~is_neg(y) THEN -1
    ELSE IF ~is_neg(x) /\ is_neg(y) THEN 1
    ELSE cmp(x, y)

\* SignExt::signed_cmp
signed_cmp(x, y) ==
    IF is_neg(x) /\ ~is_neg(y) THEN -1
    ELSE IF ~is_neg(x) /\ is_neg(y) THEN 1
    ELSE IF ~is_neg(x) /\ ~is_neg(y) THEN cmp(x, y)
    ELSE cmp(y, x)

(***************************************************************************)
(* OpcodeId (src/src/evm/opcodes.rs is not part of the sources; the byte   *)
(* values, the cost classes and the predicates follow the interpreter's    *)
(* uses of them and the design document's catalog).  An opcode is          *)
(* represented by its byte value.                                          *)
(***************************************************************************)
OpcodeId ==
    [STOP |-> 0, ADD |-> 1, MUL |-> 2, SUB |-> 3, DIV |-> 4, SDIV |-> 5,
     MOD |-> 6, SMOD |-> 7, ADDMOD |-> 8, MULMOD |-> 9, EXP |-> 10,
     SIGNEXTEND |-> 11, LT |-> 16, GT |-> 17, SLT |-> 18, SGT |-> 19,
     EQ |-> 20, AND |-> 22, OR |-> 23, XOR |-> 24, NOT |-> 25,
     BYTE |-> 26, SHA3 |-> 32, MLOAD |-> 81, MSTORE |-> 82,
     MSTORE8 |-> 83, SLOAD |-> 84, SSTORE |-> 85, JUMP |-> 86, PC |-> 88,
     MSIZE |-> 89, GAS |-> 90, PUSH0 |-> 95, PUSH1 |-> 96, PUSH2 |-> 97,
     PUSH32 |-> 127, DUP1 |-> 128, DUP2 |-> 129, DUP16 |-> 143,
     SWAP1 |-> 144, SWAP2 |-> 145, SWAP16 |-> 159]

\* GasCost tiers
GasCost_ZERO == 0
GasCost_QUICK == 2
GasCost_FASTEST == 3
GasCost_FAST == 5
GasCost_MID == 8
GasCost_SLOW == 10
GasCost_SHA3 == 30
GasCost_WARM_ACCESS == 100
GasCost_COLD_SLOAD == 2100
GasCost_SSTORE_SET == 20000
GasCost_MEMORY_EXPANSION_QUAD_DENOMINATOR == 512
GasCost_MEMORY_EXPANSION_LINEAR_COEFF == 3

is_push(op) == OpcodeId.PUSH0 <= op /\ op <= OpcodeId.PUSH32

is_dup(op) == OpcodeId.DUP1 <= op /\ op <= OpcodeId.DUP16

is_swap(op) == OpcodeId.SWAP1 <= op /\ op <= OpcodeId.SWAP16

\* OpcodeId::constant_gas_cost
constant_gas_cost(op) ==
    IF op \in {OpcodeId.STOP, OpcodeId.SLOAD, OpcodeId.SSTORE} THEN GasCost_ZERO
    ELSE IF op \in {OpcodeId.PC, OpcodeId.MSIZE, OpcodeId.GAS,
                    OpcodeId.PUSH0} THEN GasCost_QUICK
    ELSE IF op \in {OpcodeId.MUL, OpcodeId.DIV, OpcodeId.SDIV, OpcodeId.MOD, OpcodeId.SMOD,
                    OpcodeId.SIGNEXTEND} THEN GasCost_FAST
    ELSE IF op \in {OpcodeId.ADDMOD, OpcodeId.MULMOD, OpcodeId.JUMP} THEN GasCost_MID
    ELSE IF op = OpcodeId.EXP THEN GasCost_SLOW
    ELSE IF op = OpcodeId.SHA3 THEN GasCost_SHA3
    ELSE GasCost_FASTEST

(***************************************************************************)
(* Option<T>: None is the empty sequence, Some(x) the sequence <<x>>.      *)
(***************************************************************************)
None == <<>>

Some(x) == <<x>>

(***************************************************************************)
(* Bytecode (src/src/evm/bytecode.rs)                                      *)
(***************************************************************************)
PUSH_DATA_BYTES == 32

BytecodeElement(v, c) == [value |-> v, is_code |-> c]

\* Bytecode::get_opcode, for an index inside the vector (indexing outside it panics)
get_opcode(inner, index) ==
    IF inner[index + 1].is_code THEN Some(inner[index + 1].value) ELSE None

\* Bytecode::push
push(inner, instruction) ==
    Append(inner, BytecodeElement(instruction.opcode, TRUE))
    \o (IF instruction.push_data # None
        THEN [i \in 1..Len(instruction.push_data[1]) |->
                 BytecodeElement(instruction.push_data[1][i], FALSE)]
        ELSE <<>>)

(***************************************************************************)
(* Stack (src/src/evm/stack.rs).  The top is the last element.  Each       *)
(* operation returns its Result and the stack it leaves.                   *)
(***************************************************************************)
MAX_STACK_SIZE == 1024

\* try_push with the bound tested one element late
try_push_above(inner, value) ==
    IF Len(inner) > MAX_STACK_SIZE
    THEN [err |-> "StackOverflow", stack |-> inner]
    ELSE [err |-> "Ok", stack |-> Append(inner, value)]

\* Stack::try_push
try_push(inner, value) ==
    IF Len(inner) >= MAX_STACK_SIZE
    THEN [err |-> "StackOverflow", stack |-> inner]
    ELSE [err |-> "Ok", stack |-> Append(inner, value)]

\* try_pop returning the top without removing it
try_pop_keep(inner) ==
    IF inner = <<>>
    THEN [err |-> "StackUnderflow", stack |-> inner, value |-> U256_zero]
    ELSE [err |-> "Ok", stack |-> inner, value |-> inner[Len(inner)]]

\* Stack::try_pop
try_pop(inner) ==
    IF inner = <<>>
    THEN [err |-> "StackUnderflow", stack |-> inner, value |-> U256_zero]
    ELSE [err |-> "Ok", stack |-> SubSeq(inner, 1, Len(inner) - 1),
          value |-> inner[Len(inner)]]

\* Stack::try_at_least
try_at_least(inner, n) == IF Len(inner) >= n THEN "Ok" ELSE "StackUnderflow"

\* try_dup copying the top whatever n is
try_dup_top(inner, n) ==
    IF try_at_least(inner, n + 1) # "Ok"
    THEN [err |-> "StackUnderflow", stack |-> inner]
    ELSE try_push(inner, inner[Len(inner)])

\* Stack::try_dup
try_dup(inner, n) ==
    IF try_at_least(inner, n + 1) # "Ok"
    THEN [err |-> "StackUnderflow", stack |-> inner]
    ELSE try_push(inner, inner[(Len(inner) - n - 1) + 1])

\* Vec::swap of the 0-based indices i and j
VecSwap(v, i, j) ==
    [k \in 1..Len(v) |-> IF k = i + 1 THEN v[j + 1] ELSE IF k = j + 1 THEN v[i + 1] ELSE v[k]]

\* Stack::try_swap
try_swap(inner, n) ==
    IF try_at_least(inner, n + 2) # "Ok"
    THEN [err |-> "StackUnderflow", stack |-> inner]
    ELSE [err |-> "Ok", stack |-> VecSwap(inner, Len(inner) - 1, Len(inner) - 1 - n)]

\* n calls of try_pop() that leave the stack as it was when one of them fails
try_pop_n_restoring(inner, n) ==
    IF Len(inner) < n THEN [err |-> "StackUnderflow", stack |-> inner, values |-> <<>>]
    ELSE [err |-> "Ok", stack |-> SubSeq(inner, 1, Len(inner) - n),
          values |-> [k \in 1..n |-> inner[Len(inner) + 1 - k]]]

\* n calls of try_pop()?, the values in the order popped: the first failure
\* ends the sequence and keeps what was popped before it popped
RECURSIVE try_pop_n(_, _)
try_pop_n(inner, n) ==
    IF n = 0 THEN [err |-> "Ok", stack |-> inner, values |-> <<>>]
    ELSE LET p == try_pop(inner)
         IN  IF p.err # "Ok" THEN [err |-> p.err, stack |-> p.stack, values |-> <<>>]
             ELSE LET r == try_pop_n(p.stack, n - 1)
                  IN  [err |-> r.err, stack |-> r.stack, values |-> <<p.value>> \o r.values]

(***************************************************************************)
(* Gas (src/src/evm/gas.rs): [limit, used], both u64                       *)
(***************************************************************************)
\* Gas::new
Gas_new(limit) == [limit |-> limit, used |-> 0]

\* Gas::left
left(gas) == gas.limit - gas.used

\* enough refusing a cost equal to what is left
enough_strict(gas, cost) == IF left(gas) > cost THEN "Ok" ELSE "OutOfGas"

\* Gas::enough
enough(gas, cost) == IF left(gas) >= cost THEN "Ok" ELSE "OutOfGas"

\* use_gas charging without asking enough
use_gas_unchecked(gas, cost) == [err |-> "Ok", gas |-> [gas EXCEPT !.used = @ + cost]]

\* Gas::use_gas
use_gas(gas, cost) ==
    IF enough(gas, cost) # "Ok"
    THEN [err |-> "OutOfGas", gas |-> gas]
    ELSE [err |-> "Ok", gas |-> [gas EXCEPT !.used = @ + cost]]

(***************************************************************************)
(* Memory (src/src/evm/memory.rs): [inner, word_size].  The operations     *)
(* take and return the interpreter's parts as a record e with the fields   *)
(* of Evm; each returns the set of outcomes [evm, result] the builds of    *)
(* the program can produce, result being "Ok", an EvmError or "Panic".     *)
(***************************************************************************)
MAX_MEMORY_SIZE == 512 * 1024

\* the largest integer of the model checker; every gas limit modelled is below it
IntMax == 32767 * 65536 + 65535

\* usize is at least 32 bits wide: word_size * word_size cannot overflow below this
USIZE_SAFE_WORDS == 65536

Memory_new == [inner |-> <<>>, word_size |-> 0]

\* gas_cost with the quadratic term divided by the denominator
gas_cost_divided(word_size) ==
    (word_size * word_size) \div GasCost_MEMORY_EXPANSION_QUAD_DENOMINATOR
        + word_size * GasCost_MEMORY_EXPANSION_LINEAR_COEFF

\* Memory::gas_cost
gas_cost(word_size) ==
    (word_size * word_size) * GasCost_MEMORY_EXPANSION_QUAD_DENOMINATOR
        + word_size * GasCost_MEMORY_EXPANSION_LINEAR_COEFF

\* resize that never adds an element
resize_short(inner, new_len) ==
    [i \in 1..(IF new_len < Len(inner) THEN new_len ELSE Len(inner)) |-> inner[i]]

\* Vec::resize(new_len, 0)
resize(inner, new_len) ==
    [i \in 1..new_len |-> IF i <= Len(inner) THEN inner[i] ELSE 0]

\* offset + 31 overflows a usize of 64 or of 32 bits: where the arithmetic wraps,
\* new_word_size is then 0
WrapsUsize(offset) ==
    /\ Len(offset) \in {4, 8}
    /\ \A i \in 1..(Len(offset) - 1) : offset[i] = 255
    /\ offset[Len(offset)] >= 256 - 31

\* try_expand_to without the charge for an offset inside the allocation
try_expand_to_uncharged(memory, offset, base_cost, gas) ==
    IF Len(offset) > 8
    THEN \* offset.try_into() fails for every usize
         {[err |-> "OutOfGas", memory |-> memory, gas |-> gas]}
    ELSE IF ~IsSmall(offset) \/ (AsInt(offset) + 31) \div 32 >= USIZE_SAFE_WORDS
    THEN \* the conversion fails (32-bit usize), or the cost arithmetic overflows
         \* (a panic with overflow checks, a wrapped cost without), or the exact
         \* cost exceeds what is left, or the size assertion fails after the charge
         {[err |-> "OutOfGas", memory |-> memory, gas |-> gas],
          [err |-> "Panic", memory |-> memory, gas |-> gas]}
         \cup {[err |-> "Panic", memory |-> memory, gas |-> g.gas] :
                  g \in {use_gas(gas, base_cost)}}
         \cup IF WrapsUsize(offset) /\ memory.word_size = 0
              THEN \* wrapped to 0 words: nothing to pay for, nothing to resize
                   {[err |-> g.err, memory |-> memory, gas |-> g.gas] :
                       g \in {use_gas(gas, base_cost)}}
              ELSE {}
    ELSE LET off == AsInt(offset)
             new_word_size == (off + 31) \div 32
             d == new_word_size - memory.word_size
             f == GasCost_MEMORY_EXPANSION_QUAD_DENOMINATOR
                      * (new_word_size + memory.word_size)
                  + GasCost_MEMORY_EXPANSION_LINEAR_COEFF
         IN  IF off < memory.word_size * 32
             THEN {[err |-> "Ok", memory |-> memory, gas |-> gas]}
             ELSE IF d > IntMax \div f
             THEN \* the expansion cost d * f is above every modelled gas limit
                  {[err |-> "OutOfGas", memory |-> memory, gas |-> gas]}
             ELSE LET prev_gas_cost == gas_cost(memory.word_size)
                      memory_expansion_cost == gas_cost(new_word_size) - prev_gas_cost
                      g == IF memory_expansion_cost > IntMax - base_cost
                           THEN [err |-> "OutOfGas", gas |-> gas]
                           ELSE use_gas(gas, base_cost + memory_expansion_cost)
                  IN  IF g.err # "Ok"
                      THEN {[err |-> g.err, memory |-> memory, gas |-> gas]}
                      ELSE IF ~(new_word_size * 32 <= MAX_MEMORY_SIZE)
                      THEN {[err |-> "Panic", memory |-> memory, gas |-> g.gas]}
                      ELSE {[err |-> "Ok", gas |-> g.gas,
                             memory |-> [inner |-> resize(memory.inner, new_word_size * 32),
                                         word_size |-> new_word_size]]}

\* Memory::try_expand_to: the outcomes [err, memory, gas]
try_expand_to(memory, offset, base_cost, gas) ==
    IF Len(offset) > 8
    THEN \* offset.try_into() fails for every usize
         {[err |-> "OutOfGas", memory |-> memory, gas |-> gas]}
    ELSE IF ~IsSmall(offset) \/ (AsInt(offset) + 31) \div 32 >= USIZE_SAFE_WORDS
    THEN \* the conversion fails (32-bit usize), or the cost arithmetic overflows
         \* (a panic with overflow checks, a wrapped cost without), or the exact
         \* cost exceeds what is left, or the size assertion fails after the charge
         {[err |-> "OutOfGas", memory |-> memory, gas |-> gas],
          [err |-> "Panic", memory |-> memory, gas |-> gas]}
         \cup {[err |-> "Panic", memory |-> memory, gas |-> g.gas] :
                  g \in {use_gas(gas, base_cost)}}
         \cup IF WrapsUsize(offset) /\ memory.word_size = 0
              THEN \* wrapped to 0 words: nothing to pay for, nothing to resize
                   {[err |-> g.err, memory |-> memory, gas |-> g.gas] :
                       g \in {use_gas(gas, base_cost)}}
              ELSE {}
    ELSE LET off == AsInt(offset)
             new_word_size == (off + 31) \div 32
             d == new_word_size - memory.word_size
             f == GasCost_MEMORY_EXPANSION_QUAD_DENOMINATOR
                      * (new_word_size + memory.word_size)
                  + GasCost_MEMORY_EXPANSION_LINEAR_COEFF
         IN  IF off < memory.word_size * 32
             THEN LET g == use_gas(gas, base_cost)
                  IN  {[err |-> g.err, memory |-> memory, gas |-> g.gas]}
             ELSE IF d > IntMax \div f
             THEN \* the expansion cost d * f is above every modelled gas limit
                  {[err |-> "OutOfGas", memory |-> memory, gas |-> gas]}
             ELSE LET prev_gas_cost == gas_cost(memory.word_size)
                      memory_expansion_cost == gas_cost(new_word_size) - prev_gas_cost
                      g == IF memory_expansion_cost > IntMax - base_cost
                           THEN [err |-> "OutOfGas", gas |-> gas]
                           ELSE use_gas(gas, base_cost + memory_expansion_cost)
                  IN  IF g.err # "Ok"
                      THEN {[err |-> g.err, memory |-> memory, gas |-> gas]}
                      ELSE IF ~(new_word_size * 32 <= MAX_MEMORY_SIZE)
                      THEN {[err |-> "Panic", memory |-> memory, gas |-> g.gas]}
                      ELSE {[err |-> "Ok", gas |-> g.gas,
                             memory |-> [inner |-> resize(memory.inner, new_word_size * 32),
                                         word_size |-> new_word_size]]}

\* the slice inner[offset .. offset + len] is inside the vector
SliceOk(inner, offset, len) == offset + len <= Len(inner)

\* Memory::raw_get, for a slice inside the vector
raw_get(inner, offset) == from_big_endian(SubSeq(inner, offset + 1, offset + 32))

\* U256::to_big_endian into inner[offset .. offset + 32]
write_word(inner, offset, value) ==
    [i \in 1..Len(inner) |->
        IF offset < i /\ i <= offset + 32 THEN Bytes32(value)[i - offset] ELSE inner[i]]

Outcome(e, result) == [evm |-> e, result |-> result]

\* Memory::mload
mload(e) ==
    LET static_gas == constant_gas_cost(OpcodeId.MLOAD)
        p == try_pop(e.stack)
        e1 == [e EXCEPT !.stack = p.stack]
    IN  IF p.err # "Ok" THEN {Outcome(e1, p.err)}
        ELSE {LET e2 == [e1 EXCEPT !.memory = x.memory, !.gas = x.gas]
              IN  IF x.err # "Ok" THEN Outcome(e2, x.err)
                  ELSE IF ~IsSmall(p.value) \/ ~SliceOk(e2.memory.inner, AsInt(p.value), 32)
                  THEN Outcome(e2, "Panic")
                  ELSE LET value == raw_get(e2.memory.inner, AsInt(p.value))
                           q == try_push(e2.stack, value)
                       IN  IF q.err # "Ok" THEN Outcome(e2, "Panic")
                           ELSE Outcome([e2 EXCEPT !.stack = q.stack], "Ok")
              : x \in try_expand_to(e1.memory, p.value, static_gas, e1.gas)}

\* Memory::mstore
mstore(e) ==
    LET static_gas == constant_gas_cost(OpcodeId.MSTORE)
        p == try_pop_n(e.stack, 2)
        e1 == [e EXCEPT !.stack = p.stack]
    IN  IF p.err # "Ok" THEN {Outcome(e1, p.err)}
        ELSE {LET e2 == [e1 EXCEPT !.memory = x.memory, !.gas = x.gas]
                  offset == p.values[1]
                  value == p.values[2]
              IN  IF x.err # "Ok" THEN Outcome(e2, x.err)
                  ELSE IF ~IsSmall(offset) \/ ~SliceOk(e2.memory.inner, AsInt(offset), 32)
                  THEN Outcome(e2, "Panic")
                  ELSE Outcome([e2 EXCEPT !.memory.inner =
                                    write_word(@, AsInt(offset), value)], "Ok")
              : x \in try_expand_to(e1.memory, p.values[1], static_gas, e1.gas)}

\* mstore8 giving the operands back when the charge fails
mstore8_restoring(e) ==
    LET static_gas == constant_gas_cost(OpcodeId.MSTORE8)
        p == try_pop_n(e.stack, 2)
        e1 == [e EXCEPT !.stack = p.stack]
    IN  IF p.err # "Ok" THEN {Outcome(e1, p.err)}
        ELSE {LET e2 == [e1 EXCEPT !.memory = x.memory, !.gas = x.gas]
                  offset == p.values[1]
                  value == p.values[2]
              IN  IF x.err # "Ok" THEN Outcome([e2 EXCEPT !.stack = e.stack], x.err)
                  ELSE IF ~IsSmall(offset) \/ ~SliceOk(e2.memory.inner, AsInt(offset), 1)
                  THEN Outcome(e2, "Panic")
                  ELSE Outcome([e2 EXCEPT !.memory.inner[AsInt(offset) + 1] =
                                    byte(value, 0)], "Ok")
              : x \in try_expand_to(e1.memory, p.values[1], static_gas, e1.gas)}

\* Memory::mstore8
mstore8(e) ==
    LET static_gas == constant_gas_cost(OpcodeId.MSTORE8)
        p == try_pop_n(e.stack, 2)
        e1 == [e EXCEPT !.stack = p.stack]
    IN  IF p.err # "Ok" THEN {Outcome(e1, p.err)}
        ELSE {LET e2 == [e1 EXCEPT !.memory = x.memory, !.gas = x.gas]
                  offset == p.values[1]
                  value == p.values[2]
              IN  IF x.err # "Ok" THEN Outcome(e2, x.err)
                  ELSE IF ~IsSmall(offset) \/ ~SliceOk(e2.memory.inner, AsInt(offset), 1)
                  THEN Outcome(e2, "Panic")
                  ELSE Outcome([e2 EXCEPT !.memory.inner[AsInt(offset) + 1] =
                                    byte(value, 0)], "Ok")
              : x \in try_expand_to(e1.memory, p.values[1], static_gas, e1.gas)}

(***************************************************************************)
(* AccessList (src/src/evm/access_list.rs): the set warm_slots             *)
(***************************************************************************)
AccessList_new == {}

\* add_warm_slot that forgets the slots already warm
add_warm_slot_only(warm_slots, slot) == {slot}

\* AccessList::add_warm_slot
add_warm_slot(warm_slots, slot) == warm_slots \cup {slot}

\* AccessList::is_warm_slot
is_warm_slot(warm_slots, slot) == slot \in warm_slots

(***************************************************************************)
(* Storage (src/src/evm/storage.rs): the map inner, a function on its keys *)
(***************************************************************************)
Storage_new == [k \in {} |-> U256_zero]

\* Storage::raw_get
storage_raw_get(inner, key) == IF key \in DOMAIN inner THEN inner[key] ELSE U256_zero

\* raw_set that leaves a key already in the map as it is
storage_raw_set_absent(inner, key, value) ==
    [k \in DOMAIN inner \cup {key} |-> IF k \in DOMAIN inner THEN inner[k] ELSE value]

\* Storage::raw_set: the map after the insert (the call returns the prior value)
storage_raw_set(inner, key, value) ==
    [k \in DOMAIN inner \cup {key} |-> IF k = key THEN value ELSE inner[k]]

\* what Storage::raw_set returns: the prior value of HashMap::insert, or zero
raw_set_returns(inner, key) == IF key \in DOMAIN inner THEN inner[key] ELSE U256_zero

\* sload that does not mark the slot warm
sload_forgets(e) ==
    LET static_gas == constant_gas_cost(OpcodeId.SLOAD)
        p == try_pop(e.stack)
        e1 == [e EXCEPT !.stack = p.stack]
        key == p.value
        dynamic_gas == IF is_warm_slot(e.access_list, key)
                       THEN GasCost_WARM_ACCESS ELSE GasCost_COLD_SLOAD
        total_gas == static_gas + dynamic_gas
        g == use_gas(e.gas, total_gas)
        value == storage_raw_get(e.storage, key)
        q == try_push(e1.stack, value)
    IN  IF p.err # "Ok" THEN {Outcome(e1, p.err)}
        ELSE IF g.err # "Ok" THEN {Outcome(e1, g.err)}
        ELSE LET e2 == [e1 EXCEPT !.gas = g.gas]
             IN  IF q.err # "Ok" THEN {Outcome(e2, "Panic")}
                 ELSE {Outcome([e2 EXCEPT !.stack = q.stack], "Ok")}

\* Storage::sload
sload(e) ==
    LET static_gas == constant_gas_cost(OpcodeId.SLOAD)
        p == try_pop(e.stack)
        e1 == [e EXCEPT !.stack = p.stack]
        key == p.value
        dynamic_gas == IF is_warm_slot(e.access_list, key)
                       THEN GasCost_WARM_ACCESS ELSE GasCost_COLD_SLOAD
        total_gas == static_gas + dynamic_gas
        g == use_gas(e.gas, total_gas)
        value == storage_raw_get(e.storage, key)
        q == try_push(e1.stack, value)
    IN  IF p.err # "Ok" THEN {Outcome(e1, p.err)}
        ELSE IF g.err # "Ok" THEN {Outcome(e1, g.err)}
        ELSE LET e2 == [e1 EXCEPT !.gas = g.gas,
                                  !.access_list = add_warm_slot(@, key)]
             IN  IF q.err # "Ok" THEN {Outcome(e2, "Panic")}
                 ELSE {Outcome([e2 EXCEPT !.stack = q.stack], "Ok")}

\* sstore charging SSTORE_SET whatever the slot holds
sstore_flat(e) ==
    LET static_gas == constant_gas_cost(OpcodeId.SSTORE)
        p == try_pop_n(e.stack, 2)
        e1 == [e EXCEPT !.stack = p.stack]
        key == p.values[1]
        value == p.values[2]
        base_dynamic_gas == GasCost_SSTORE_SET
        dynamic_gas == IF is_warm_slot(e.access_list, key)
                       THEN base_dynamic_gas
                       ELSE base_dynamic_gas + GasCost_COLD_SLOAD
        total_gas == static_gas + dynamic_gas
        g == use_gas(e.gas, total_gas)
    IN  IF p.err # "Ok" THEN {Outcome(e1, p.err)}
        ELSE IF g.err # "Ok" THEN {Outcome(e1, g.err)}
        ELSE {Outcome([e1 EXCEPT !.gas = g.gas,
                                 !.access_list = add_warm_slot(@, key),
                                 !.storage = storage_raw_set(@, key, value)], "Ok")}

\* Storage::sstore
sstore(e) ==
    LET static_gas == constant_gas_cost(OpcodeId.SSTORE)
        p == try_pop_n(e.stack, 2)
        e1 == [e EXCEPT !.stack = p.stack]
        key == p.values[1]
        value == p.values[2]
        current_value == storage_raw_get(e.storage, key)
        base_dynamic_gas == IF is_zero(current_value)
                            THEN GasCost_SSTORE_SET ELSE GasCost_WARM_ACCESS
        dynamic_gas == IF is_warm_slot(e.access_list, key)
                       THEN base_dynamic_gas
                       ELSE base_dynamic_gas + GasCost_COLD_SLOAD
        total_gas == static_gas + dynamic_gas
        g == use_gas(e.gas, total_gas)
    IN  IF p.err # "Ok" THEN {Outcome(e1, p.err)}
        ELSE IF g.err # "Ok" THEN {Outcome(e1, g.err)}
        ELSE {Outcome([e1 EXCEPT !.gas = g.gas,
                                 !.access_list = add_warm_slot(@, key),
                                 !.storage = storage_raw_set(@, key, value)], "Ok")}

(***************************************************************************)
(* Evm (src/src/evm/mod.rs): the record e of its fields                    *)
(***************************************************************************)
\* Evm::new
Evm_new(gas_limit) ==
    [program_counter |-> 0,
     access_list |-> AccessList_new,
     bytecode |-> <<>>,
     gas |-> Gas_new(gas_limit),
     memory |-> Memory_new,
     stack |-> <<>>,
     storage |-> Storage_new]

\* the shape shared by the arms of step that charge the static cost, pop n
\* operands, push Res(operands) and advance the program counter by one
Arm(e, opcode, n, Res(_)) ==
    LET g == use_gas(e.gas, constant_gas_cost(opcode))
        e1 == [e EXCEPT !.gas = g.gas]
        p == try_pop_n(e1.stack, n)
        e2 == [e1 EXCEPT !.stack = p.stack]
        q == try_push(e2.stack, Res(p.values))
    IN  IF g.err # "Ok" THEN Outcome(e, g.err)
        ELSE IF p.err # "Ok" THEN Outcome(e2, p.err)
        ELSE IF q.err # "Ok" THEN Outcome(e2, q.err)
        ELSE Outcome([e2 EXCEPT !.stack = q.stack, !.program_counter = @ + 1], "Ok")

\* ADD | MUL | SUB with the operands popped before the charge
step_add_mul_sub_popping(e, opcode) ==
    LET p == try_pop_n(e.stack, 2)
        e1 == [e EXCEPT !.stack = p.stack]
        g == use_gas(e1.gas, constant_gas_cost(opcode))
    IN  IF p.err # "Ok" THEN Outcome(e1, p.err)
        ELSE IF g.err # "Ok" THEN Outcome(e1, g.err)
        ELSE Arm(e, opcode, 2,
                 LAMBDA v : IF opcode = OpcodeId.ADD THEN overflowing_add(v[1], v[2])
                            ELSE IF opcode = OpcodeId.MUL THEN overflowing_mul(v[1], v[2])
                            ELSE overflowing_sub(v[1], v[2]))

\* ADD | MUL | SUB
step_add_mul_sub(e, opcode) ==
    Arm(e, opcode, 2,
        LAMBDA v : IF opcode = OpcodeId.ADD THEN overflowing_add(v[1], v[2])
                   ELSE IF opcode = OpcodeId.MUL THEN overflowing_mul(v[1], v[2])
                   ELSE overflowing_sub(v[1], v[2]))

\* DIV | MOD
step_div_mod(e, opcode) ==
    Arm(e, opcode, 2,
        LAMBDA v : IF v[2] = U256_zero THEN U256_zero
                   ELSE IF opcode = OpcodeId.DIV THEN div(v[1], v[2])
                   ELSE rem(v[1], v[2]))

\* SDIV | SMOD
step_sdiv_smod(e, opcode) ==
    Arm(e, opcode, 2,
        LAMBDA v :
            LET a == v[1]
                b == v[2]
                a_sign == is_neg(a)
                b_sign == is_neg(b)
                result_sign == a_sign # b_sign
                a_abs == IF a_sign THEN neg(a) ELSE a
                b_abs == IF b_sign THEN neg(b) ELSE b
                result_abs == IF opcode = OpcodeId.SDIV THEN div(a_abs, b_abs)
                              ELSE rem(a_abs, b_abs)
            IN  IF b = U256_zero THEN U256_zero
                ELSE IF result_sign THEN neg(result_abs) ELSE result_abs)

\* ADDMOD | MULMOD
step_addmod_mulmod(e, opcode) ==
    Arm(e, opcode, 3,
        LAMBDA v :
            LET tmp == IF opcode = OpcodeId.ADDMOD THEN overflowing_add(v[1], v[2])
                       ELSE overflowing_mul(v[1], v[2])
            IN  IF v[3] = U256_zero THEN U256_zero ELSE rem(tmp, v[3]))

\* `as usize` of a u64: the value itself, or its low 32 bits where usize is u32
as_usize(w64) == {w64, from_big_endian(SubSeq(Bytes32(w64), WORD_BYTES - 3, WORD_BYTES))}

\* SIGNEXTEND, for one value of the index as usize
step_signextend_at(e, least_significant_byte) ==
    Arm(e, OpcodeId.SIGNEXTEND, 2,
        LAMBDA v :
            IF IsSmall(least_significant_byte) /\ AsInt(least_significant_byte) < 32
            THEN LET number == v[2]
                     byte_position == 8 * (31 - AsInt(least_significant_byte))
                     test_bit == shl(U256_one, byte_position)
                     extend == IF bitand(number, test_bit) = U256_zero THEN U256_zero
                               ELSE shl(bitnot(U256_zero), byte_position)
                 IN  bitor(number, extend)
            ELSE v[2])

\* SIGNEXTEND
step_signextend(e) ==
    IF e.stack = <<>> THEN {step_signextend_at(e, U256_zero)}
    ELSE {step_signextend_at(e, lsb) : lsb \in as_usize(low_u64(e.stack[Len(e.stack)]))}

\* LT | GT | SLT | SGT | EQ
step_compare(e, opcode) ==
    Arm(e, opcode, 2,
        LAMBDA v :
            LET a == v[1]
                b == v[2]
                condition == IF opcode = OpcodeId.LT THEN cmp(a, b) < 0
                             ELSE IF opcode = OpcodeId.GT THEN cmp(a, b) > 0
                             ELSE IF opcode = OpcodeId.SLT THEN signed_cmp(a, b) < 0
                             ELSE IF opcode = OpcodeId.SGT THEN signed_cmp(a, b) > 0
                             ELSE a = b
            IN  IF condition THEN U256_one ELSE U256_zero)

\* AND | OR | XOR
step_and_or_xor(e, opcode) ==
    Arm(e, opcode, 2,
        LAMBDA v : IF opcode = OpcodeId.AND THEN bitand(v[1], v[2])
                   ELSE IF opcode = OpcodeId.OR THEN bitor(v[1], v[2])
                   ELSE bitxor(v[1], v[2]))

\* NOT
step_not(e) == Arm(e, OpcodeId.NOT, 1, LAMBDA v : bitnot(v[1]))

\* BYTE
step_byte(e) ==
    Arm(e, OpcodeId.BYTE, 2,
        LAMBDA v :
            LET n == v[1]
                a == v[2]
            IN  IF cmp(n, U256_from(32)) < 0
                THEN LET byte_position == 8 * (31 - AsInt(low_u64(n)))
                         test_bit == shl(U256_one, byte_position)
                     IN  IF bitand(a, test_bit) = U256_zero THEN U256_zero ELSE U256_one
                ELSE U256_zero)

\* PC without the advance of the program counter
step_pc_staying(e) ==
    LET g == use_gas(e.gas, constant_gas_cost(OpcodeId.PC))
        q == try_push(e.stack, U256_from(e.program_counter))
    IN  IF g.err # "Ok" THEN Outcome(e, g.err)
        ELSE IF q.err # "Ok" THEN Outcome([e EXCEPT !.gas = g.gas], q.err)
        ELSE Outcome([e EXCEPT !.gas = g.gas, !.stack = q.stack], "Ok")

\* PC
step_pc(e) == Arm(e, OpcodeId.PC, 0, LAMBDA v : U256_from(e.program_counter))

\* MSIZE
step_msize(e) == Arm(e, OpcodeId.MSIZE, 0, LAMBDA v : U256_from(e.memory.word_size * 32))

\* PUSH0
step_push0(e) == Arm(e, OpcodeId.PUSH0, 0, LAMBDA v : U256_zero)

\* GAS: the gas left after the charge
step_gas(e) ==
    Arm(e, OpcodeId.GAS, 0, LAMBDA v : U256_from(left(e.gas) - constant_gas_cost(OpcodeId.GAS)))

\* the PUSHn arm advancing past the opcode only
step_push_by_one(e, opcode) ==
    LET g == use_gas(e.gas, constant_gas_cost(opcode))
        e1 == [e EXCEPT !.gas = g.gas]
        n_bytes == opcode - OpcodeId.PUSH0
        first == e.program_counter + 1
        bytes == [i \in 1..n_bytes |-> e.bytecode[first + i].value]
        q == try_push(e1.stack, from_big_endian(bytes))
    IN  IF g.err # "Ok" THEN Outcome(e, g.err)
        ELSE IF ~SliceOk(e.bytecode, first, n_bytes) THEN Outcome(e1, "Panic")
        ELSE IF q.err # "Ok" THEN Outcome(e1, q.err)
        ELSE Outcome([e1 EXCEPT !.stack = q.stack, !.program_counter = @ + 1], "Ok")

\* PUSH1 .. PUSH32
step_push(e, opcode) ==
    LET g == use_gas(e.gas, constant_gas_cost(opcode))
        e1 == [e EXCEPT !.gas = g.gas]
        n_bytes == opcode - OpcodeId.PUSH0
        first == e.program_counter + 1
        bytes == [i \in 1..n_bytes |-> e.bytecode[first + i].value]
        q == try_push(e1.stack, from_big_endian(bytes))
    IN  IF g.err # "Ok" THEN Outcome(e, g.err)
        ELSE IF ~SliceOk(e.bytecode, first, n_bytes) THEN Outcome(e1, "Panic")
        ELSE IF q.err # "Ok" THEN Outcome(e1, q.err)
        ELSE Outcome([e1 EXCEPT !.stack = q.stack,
                                !.program_counter = @ + 1 + n_bytes], "Ok")

\* DUP1 .. DUP16
step_dup(e, opcode) ==
    LET g == use_gas(e.gas, constant_gas_cost(opcode))
        e1 == [e EXCEPT !.gas = g.gas]
        q == try_dup(e1.stack, opcode - OpcodeId.DUP1)
    IN  IF g.err # "Ok" THEN Outcome(e, g.err)
        ELSE IF q.err # "Ok" THEN Outcome(e1, q.err)
        ELSE Outcome([e1 EXCEPT !.stack = q.stack, !.program_counter = @ + 1], "Ok")

\* SWAP1 .. SWAP16
step_swap(e, opcode) ==
    LET g == use_gas(e.gas, constant_gas_cost(opcode))
        e1 == [e EXCEPT !.gas = g.gas]
        q == try_swap(e1.stack, opcode - OpcodeId.SWAP1)
    IN  IF g.err # "Ok" THEN Outcome(e, g.err)
        ELSE IF q.err # "Ok" THEN Outcome(e1, q.err)
        ELSE Outcome([e1 EXCEPT !.stack = q.stack, !.program_counter = @ + 1], "Ok")

\* MLOAD | MSTORE | MSTORE8 | SLOAD | SSTORE: the component's operation, then
\* the program counter advances when it returned Ok
step_delegate(outcomes) ==
    {IF o.result = "Ok"
     THEN Outcome([o.evm EXCEPT !.program_counter = @ + 1], "Ok")
     ELSE o : o \in outcomes}

\* the match of Evm::step on an opcode
dispatch(e, opcode) ==
    IF opcode \in {OpcodeId.ADD, OpcodeId.MUL, OpcodeId.SUB} THEN {step_add_mul_sub(e, opcode)}
    ELSE IF opcode \in {OpcodeId.DIV, OpcodeId.MOD} THEN {step_div_mod(e, opcode)}
    ELSE IF opcode \in {OpcodeId.SDIV, OpcodeId.SMOD} THEN {step_sdiv_smod(e, opcode)}
    ELSE IF opcode \in {OpcodeId.ADDMOD, OpcodeId.MULMOD} THEN {step_addmod_mulmod(e, opcode)}
    ELSE IF opcode = OpcodeId.EXP THEN {Outcome(e, "Panic")}
    ELSE IF opcode = OpcodeId.SIGNEXTEND THEN step_signextend(e)
    ELSE IF opcode \in {OpcodeId.LT, OpcodeId.GT, OpcodeId.SLT, OpcodeId.SGT,
                        OpcodeId.EQ} THEN {step_compare(e, opcode)}
    ELSE IF opcode \in {OpcodeId.AND, OpcodeId.OR, OpcodeId.XOR} THEN {step_and_or_xor(e,
                        opcode)}
    ELSE IF opcode = OpcodeId.NOT THEN {step_not(e)}
    ELSE IF opcode = OpcodeId.BYTE THEN {step_byte(e)}
    ELSE IF opcode = OpcodeId.MLOAD THEN step_delegate(mload(e))
    ELSE IF opcode = OpcodeId.MSTORE THEN step_delegate(mstore(e))
    ELSE IF opcode = OpcodeId.MSTORE8 THEN step_delegate(mstore8(e))
    ELSE IF opcode = OpcodeId.PC THEN {step_pc(e)}
    ELSE IF opcode = OpcodeId.MSIZE THEN {step_msize(e)}
    ELSE IF opcode = OpcodeId.PUSH0 THEN {step_push0(e)}
    ELSE IF is_push(opcode) THEN {step_push(e, opcode)}
    ELSE IF is_dup(opcode) THEN {step_dup(e, opcode)}
    ELSE IF is_swap(opcode) THEN {step_swap(e, opcode)}
    ELSE IF opcode = OpcodeId.SHA3 THEN {Outcome(e, "Panic")}
    ELSE IF opcode = OpcodeId.SLOAD THEN step_delegate(sload(e))
    ELSE IF opcode = OpcodeId.SSTORE THEN step_delegate(sstore(e))
    ELSE IF opcode = OpcodeId.GAS THEN {step_gas(e)}
    ELSE {Outcome(e, "Panic")}

\* Evm::step: the outcomes [evm, result]
step(e) ==
    IF ~(e.program_counter < Len(e.bytecode)) THEN {Outcome(e, "Panic")}
    ELSE LET opcode == get_opcode(e.bytecode, e.program_counter)
         IN  IF opcode = None THEN {Outcome(e, "Panic")}
             ELSE dispatch(e, opcode[1])

\* Evm::push_instruction
push_instruction(e, instruction) ==
    Outcome([e EXCEPT !.bytecode = push(@, instruction)], "Ok")

(***************************************************************************)
(* The interpreter as a state machine: a host that has built an Evm calls  *)
(* push_instruction and step in any order.  A panic ends the run.          *)
(***************************************************************************)
VARIABLES
    program_counter,  \* Evm.program_counter
    access_list,      \* Evm.access_list.warm_slots
    bytecode,         \* Evm.bytecode.inner
    gas,              \* Evm.gas
    memory,           \* Evm.memory
    stack,            \* Evm.stack.inner
    storage,          \* Evm.storage.inner
    result,           \* what the last call returned: "Ok", an EvmError, or "Panic"
    last_call,        \* the last call: its name and its argument
    returned,         \* Option of the value the last call returned
    history           \* counters of the calls made so far

vars == <<program_counter, access_list, bytecode, gas, memory, stack, storage,
          result, last_call, returned, history>>

\* the Evm the variables hold
Evm ==
    [program_counter |-> program_counter,
     access_list |-> access_list,
     bytecode |-> bytecode,
     gas |-> gas,
     memory |-> memory,
     stack |-> stack,
     storage |-> storage]

SetEvm(e) ==
    /\ program_counter' = e.program_counter
    /\ access_list' = e.access_list
    /\ bytecode' = e.bytecode
    /\ gas' = e.gas
    /\ memory' = e.memory
    /\ stack' = e.stack
    /\ storage' = e.storage

\* bounds of the exploration
MaxPush == 2

\* the gas limits given to Evm::new
GasLimits == {5, 1000, 30000}

\* a push payload: the n given bytes, then zeros up to the array's 32 bytes
Payload(b) == [i \in 1..PUSH_DATA_BYTES |-> IF i <= Len(b) THEN b[i] ELSE 0]

Instruction(opcode, push_data) == [opcode |-> opcode, push_data |-> push_data]

\* the payload length an opcode implies
PayloadLen(opcode) == IF is_push(opcode) THEN opcode - OpcodeId.PUSH0 ELSE 0

\* an instruction as Instruction::random builds them: a payload iff PUSH1..PUSH32
WellFormed(i) == (i.push_data # None) <=> (is_push(i.opcode) /\ i.opcode # OpcodeId.PUSH0)

PlainOpcodes ==
    {OpcodeId.STOP, OpcodeId.ADD, OpcodeId.MUL, OpcodeId.SUB, OpcodeId.DIV, OpcodeId.SDIV,
     OpcodeId.MOD, OpcodeId.SMOD, OpcodeId.ADDMOD, OpcodeId.MULMOD, OpcodeId.EXP,
     OpcodeId.SIGNEXTEND,
     OpcodeId.LT, OpcodeId.GT, OpcodeId.SLT, OpcodeId.SGT, OpcodeId.EQ, OpcodeId.AND,
     OpcodeId.OR, OpcodeId.XOR, OpcodeId.NOT, OpcodeId.BYTE, OpcodeId.SHA3, OpcodeId.MLOAD,
     OpcodeId.MSTORE, OpcodeId.MSTORE8,
     OpcodeId.SLOAD, OpcodeId.SSTORE, OpcodeId.JUMP, OpcodeId.PC, OpcodeId.MSIZE,
     OpcodeId.GAS, OpcodeId.PUSH0, OpcodeId.DUP1, OpcodeId.DUP2, OpcodeId.DUP16,
     OpcodeId.SWAP1, OpcodeId.SWAP2, OpcodeId.SWAP16}

\* the instructions the host appends: well-formed ones, and two that are not
Instructions ==
    {Instruction(op, None) : op \in PlainOpcodes}
    \cup {Instruction(OpcodeId.PUSH1, Some(Payload(<<1>>))),
          Instruction(OpcodeId.PUSH1, Some(Payload(<<2>>))),
          Instruction(OpcodeId.PUSH2, Some(Payload(<<1, 0>>))),
          Instruction(OpcodeId.PUSH32, Some([i \in 1..PUSH_DATA_BYTES |-> 255]))}
    \cup {Instruction(OpcodeId.PUSH1, None), Instruction(OpcodeId.ADD, Some(Payload(<<7>>)))}

\* pushes, steps, errors: the calls of push_instruction, of step, and the steps
\* that did not return Ok; steps_at_push: the steps made before the last
\* push_instruction; well_formed: every instruction appended was well-formed;
\* gas_limit: the argument of Evm::new; charged: the sum of the costs of the
\* direct use_gas calls that returned Ok; touched: the slots of the SLOAD and
\* SSTORE steps that returned Ok; written: the value of the last SSTORE step
\* that returned Ok, for each slot that had one; last_sload: Option of the slot
\* of the last step, when that was an SLOAD that returned Ok; out_of_gas: a step
\* has returned OutOfGas; expansion: the gas that the MLOAD, MSTORE and MSTORE8
\* steps have used beyond their static costs
NoHistory == [pushes |-> 0, steps |-> 0, errors |-> 0, steps_at_push |-> 0,
              well_formed |-> TRUE, gas_limit |-> 0, charged |-> 0,
              touched |-> {}, written |-> [k \in {} |-> U256_zero],
              last_sload |-> None, out_of_gas |-> FALSE,
              expansion |-> 0]

\* the opcode a step of e executes, STOP standing for the steps that find none
OpcodeAt(e) ==
    IF e.program_counter < Len(e.bytecode)
           /\ e.bytecode[e.program_counter + 1].is_code
    THEN e.bytecode[e.program_counter + 1].value
    ELSE OpcodeId.STOP

\* the k-th element of a stack from the top, k = 0 being the top
Top(s, k) == s[Len(s) - k]

\* the history after a step of e with outcome o
Record(h, e, o) ==
    LET opcode == OpcodeAt(e)
        ok == o.result = "Ok"
    IN  [h EXCEPT
            !.steps = @ + 1,
            !.errors = @ + IF ok THEN 0 ELSE 1,
            !.touched = IF ok /\ opcode \in {OpcodeId.SLOAD, OpcodeId.SSTORE}
                        THEN @ \cup {Top(e.stack, 0)} ELSE @,
            !.written = IF ok /\ opcode = OpcodeId.SSTORE
                        THEN [k \in DOMAIN @ \cup {Top(e.stack, 0)} |->
                                 IF k = Top(e.stack, 0) THEN Top(e.stack, 1) ELSE @[k]]
                        ELSE @,
            !.last_sload = IF ok /\ opcode = OpcodeId.SLOAD
                           THEN Some(Top(e.stack, 0)) ELSE None,
            !.out_of_gas = @ \/ o.result = "OutOfGas",
            !.expansion = IF opcode \in {OpcodeId.MLOAD, OpcodeId.MSTORE, OpcodeId.MSTORE8}
                               /\ o.evm.gas.used # e.gas.used
                          THEN @ + (o.evm.gas.used - e.gas.used) - constant_gas_cost(opcode)
                          ELSE @]

\* the run that appends a program to a new Evm and then steps n times, as
\* [evm, result, history]; the steps of these runs have one outcome each
RECURSIVE RunSteps(_, _)
RunSteps(r, n) ==
    IF n = 0 \/ r.result = "Panic" THEN r
    ELSE IF n = 1
    THEN LET o == TheOne(step(r.evm))
         IN  [evm |-> o.evm, result |-> o.result, history |-> Record(r.history, r.evm, o)]
    ELSE TheOne({RunSteps(half, n - (n \div 2)) : half \in {RunSteps(r, n \div 2)}})

RECURSIVE PushAll(_, _)
PushAll(e, program) ==
    IF program = <<>> THEN e
    ELSE IF Len(program) = 1 THEN push_instruction(e, program[1]).evm
    ELSE LET h == Len(program) \div 2
         IN  TheOne({PushAll(half, SubSeq(program, h + 1, Len(program))) :
                        half \in {PushAll(e, SubSeq(program, 1, h))}})

Run(gas_limit, program, n) ==
    RunSteps([evm |-> PushAll(Evm_new(gas_limit), program), result |-> "Ok",
              history |-> [NoHistory EXCEPT
                  !.gas_limit = gas_limit,
                  !.well_formed = \A k \in 1..Len(program) : WellFormed(program[k])]], n)

MaxErrors == 2

\* the runs the exploration starts from: a new Evm; the unit test's first two
\* instructions appended; a few values on the stack; a stack one short of full
\* and a full one
Seeds ==
    {[gas_limit |-> l, program |-> <<>>, steps |-> 0] : l \in GasLimits}
    \cup {[gas_limit |-> 1000,
           program |-> <<Instruction(OpcodeId.PUSH1, Some(Payload(<<1>>))),
                         Instruction(OpcodeId.PUSH1, Some(Payload(<<2>>)))>>,
           steps |-> 0]}
    \cup {[gas_limit |-> l,
           program |-> <<Instruction(OpcodeId.PUSH0, None), Instruction(OpcodeId.NOT, None),
                         Instruction(OpcodeId.PC, None), Instruction(OpcodeId.PC, None)>>,
           steps |-> 4] : l \in {1000, 30000}}
    \cup {[gas_limit |-> 30000,
           program |-> [k \in 1..n |-> Instruction(OpcodeId.PC, None)],
           steps |-> n] : n \in {MAX_STACK_SIZE - 1, MAX_STACK_SIZE}}
    \cup {[gas_limit |-> 5,
           program |-> <<Instruction(OpcodeId.PUSH0, None), Instruction(OpcodeId.PC, None)>>,
           steps |-> 2]}

\* the state at the end of one of the runs
StartFrom(runs) ==
    \E s \in runs :
        \E r \in {Run(s.gas_limit, s.program, s.steps)} :
            /\ program_counter = r.evm.program_counter
            /\ access_list = r.evm.access_list
            /\ bytecode = r.evm.bytecode
            /\ gas = r.evm.gas
            /\ memory = r.evm.memory
            /\ stack = r.evm.stack
            /\ storage = r.evm.storage
            /\ result = r.result
            /\ last_call = [name |-> IF s.steps > 0 THEN "step"
                                     ELSE IF s.program # <<>> THEN "push_instruction"
                                     ELSE "new",
                            arg |-> None]
            /\ returned = None
            /\ history = r.history

Init == StartFrom(Seeds)

\* the host calls evm.push_instruction(i)
PushInstruction(i) ==
    /\ result # "Panic"
    /\ history.pushes < MaxPush
    /\ LET o == push_instruction(Evm, i)
       IN  /\ SetEvm(o.evm)
           /\ result' = o.result
    /\ last_call' = [name |-> "push_instruction", arg |-> Some(i)]
    /\ returned' = None
    /\ history' = [history EXCEPT !.pushes = @ + 1,
                                  !.steps_at_push = history.steps,
                                  !.well_formed = @ /\ WellFormed(i)]

\* the host calls evm.step()
Step ==
    /\ result # "Panic"
    /\ history.errors < MaxErrors
    /\ \E o \in step(Evm) :
        /\ SetEvm(o.evm)
        /\ result' = o.result
        /\ history' = Record(history, Evm, o)
    /\ last_call' = [name |-> "step", arg |-> None]
    /\ returned' = None

Next ==
    \/ \E i \in Instructions : PushInstruction(i)
    \/ Step

Spec == Init /\ [][Next]_vars

(***************************************************************************)
(* The interpreter on programs that use the memory and the storage: the    *)
(* same host, starting from a new Evm with one of a few programs appended  *)
(* and appending only instructions that move data.                         *)
(***************************************************************************)
Program(opcodes) == [k \in 1..Len(opcodes) |-> Instruction(opcodes[k], None)]

\* PUSH32 of a word
PushWord(w) == Instruction(OpcodeId.PUSH32, Some(Bytes32(w)))

\* MSTORE of all ones at offset 0, then MLOAD of offset 0, on the new memory
RoundTripProgram ==
    Program(<<OpcodeId.PUSH0, OpcodeId.NOT, OpcodeId.PUSH0, OpcodeId.MSTORE,
              OpcodeId.PUSH0, OpcodeId.MLOAD>>)

\* MSTORE8 of 255 at offset 3, then MLOAD of offset 0
ByteProgram ==
    Program(<<OpcodeId.PUSH0, OpcodeId.PUSH0, OpcodeId.NOT, OpcodeId.PC,
              OpcodeId.MSTORE8, OpcodeId.MLOAD>>)

\* SSTORE of 2 to slot 0, then SSTORE of 0 to slot 0
StoreTwiceProgram ==
    Program(<<OpcodeId.PC, OpcodeId.PUSH0, OpcodeId.PC, OpcodeId.PUSH0,
              OpcodeId.SSTORE, OpcodeId.SSTORE>>)

\* SSTORE of 1 to slot 0, then SLOAD of slot 0, then SLOAD of slot 1
StoreLoadProgram ==
    Program(<<OpcodeId.PUSH0, OpcodeId.PC, OpcodeId.PUSH0, OpcodeId.SSTORE,
              OpcodeId.SLOAD, OpcodeId.SLOAD>>)

\* SLOAD of slot 0 twice
LoadTwiceProgram == Program(<<OpcodeId.PUSH0, OpcodeId.SLOAD, OpcodeId.SLOAD>>)

\* the runs the exploration starts from: each program appended to a new Evm,
\* and two runs that have pushed the operands of MSTORE8 instructions, for
\* offset 3 and then offset 40, and for offset 40 alone
OpSeeds ==
    {[gas_limit |-> 30000, program |-> RoundTripProgram, steps |-> 0]}
    \cup {[gas_limit |-> l, program |-> ByteProgram, steps |-> 0] : l \in {100, 30000}}
    \cup {[gas_limit |-> l, program |-> StoreTwiceProgram, steps |-> 0] : l \in {1000, 30000}}
    \cup {[gas_limit |-> 30000, program |-> StoreLoadProgram, steps |-> 0]}
    \cup {[gas_limit |-> l, program |-> LoadTwiceProgram, steps |-> 0] : l \in {2000, 30000}}
    \cup {[gas_limit |-> 30000,
           program |-> <<PushWord(U256_zero), PushWord(U256_from(40)),
                         PushWord(U256_zero), PushWord(U256_from(3)),
                         Instruction(OpcodeId.MSTORE8, None),
                         Instruction(OpcodeId.MSTORE8, None)>>,
           steps |-> 4],
          [gas_limit |-> 30000,
           program |-> <<PushWord(U256_zero), PushWord(U256_from(40)),
                         Instruction(OpcodeId.MSTORE8, None)>>,
           steps |-> 2]}

OpInstructions ==
    {Instruction(op, None) :
        op \in {OpcodeId.PUSH0, OpcodeId.PC, OpcodeId.NOT, OpcodeId.DUP1, OpcodeId.MSIZE,
                OpcodeId.MLOAD, OpcodeId.MSTORE, OpcodeId.MSTORE8,
                OpcodeId.SLOAD, OpcodeId.SSTORE}}

OpInit == StartFrom(OpSeeds)

OpNext ==
    \/ \E i \in OpInstructions : PushInstruction(i)
    \/ Step

OpSpec == OpInit /\ [][OpNext]_vars

(***************************************************************************)
(* The Stack on its own: a host that holds a Stack calls its operations,   *)
(* starting from an empty stack or from one that try_push has filled up to *)
(* one element short of the limit.  history.steps counts the calls.        *)
(***************************************************************************)
MaxStackCalls == 3

StackWords == {U256_zero, U256_one, U256_MAX}

\* the arguments of try_dup and try_swap tried, of the 0..15 that step passes
DupSwapArgs == {0, 1, 2, 15}

StackCall(name, arg, r, ret) ==
    /\ history.steps < MaxStackCalls
    /\ stack' = r.stack
    /\ result' = r.err
    /\ last_call' = [name |-> name, arg |-> Some(arg)]
    /\ returned' = ret
    /\ history' = [history EXCEPT !.steps = @ + 1]
    /\ UNCHANGED <<program_counter, access_list, bytecode, gas, memory, storage>>

TryPush(v) == StackCall("try_push", v, try_push(stack, v), None)

TryPop ==
    StackCall("try_pop", <<>>, try_pop(stack),
              IF try_pop(stack).err = "Ok" THEN Some(try_pop(stack).value) ELSE None)

TryDup(n) == StackCall("try_dup", n, try_dup(stack, n), None)

TrySwap(n) == StackCall("try_swap", n, try_swap(stack, n), None)

StackInit ==
    /\ stack \in {<<>>, [i \in 1..(MAX_STACK_SIZE - 1) |-> U256_from(i - 1)]}
    /\ program_counter = 0
    /\ access_list = AccessList_new
    /\ bytecode = <<>>
    /\ gas = Gas_new(0)
    /\ memory = Memory_new
    /\ storage = Storage_new
    /\ result = "Ok"
    /\ last_call = [name |-> "new", arg |-> None]
    /\ returned = None
    /\ history = NoHistory

StackNext ==
    \/ \E v \in StackWords : TryPush(v)
    \/ TryPop
    \/ \E n \in DupSwapArgs : TryDup(n)
    \/ \E n \in DupSwapArgs : TrySwap(n)

StackSpec == StackInit /\ [][StackNext]_vars

(***************************************************************************)
(* The Gas manager on its own: a host that holds a Gas calls use_gas.      *)
(***************************************************************************)
MaxGasLimit == 6

MaxCost == 4

UseGas(cost) ==
    LET r == use_gas(gas, cost)
    IN  /\ gas' = r.gas
        /\ result' = r.err
        /\ last_call' = [name |-> "use_gas", arg |-> Some(cost)]
        /\ history' = [history EXCEPT
               !.charged = @ + IF r.err = "Ok" THEN cost ELSE 0]
        /\ UNCHANGED <<program_counter, access_list, bytecode, memory, stack, storage,
                       returned>>

GasInit ==
    /\ \E l \in 0..MaxGasLimit :
        /\ gas = Gas_new(l)
        /\ history = [NoHistory EXCEPT !.gas_limit = l]
    /\ program_counter = 0
    /\ access_list = AccessList_new
    /\ bytecode = <<>>
    /\ memory = Memory_new
    /\ stack = <<>>
    /\ storage = Storage_new
    /\ result = "Ok"
    /\ last_call = [name |-> "new", arg |-> None]
    /\ returned = None

GasNext == \E cost \in 0..MaxCost : UseGas(cost)

GasSpec == GasInit /\ [][GasNext]_vars

(***************************************************************************)
(* The Memory on its own: a host that holds a Memory and a Gas calls       *)
(* try_expand_to, starting from an empty memory or from the one word that  *)
(* mstore8 leaves after writing 255 at offset 3.  history.steps counts the *)
(* calls.                                                                  *)
(***************************************************************************)
MaxMemoryCalls == 3

MemoryGasLimits == {2, 600, 30000}

\* the offsets tried: around the word boundaries, beyond what any modelled
\* limit pays for, at the top of a 64-bit usize, and beyond every usize
MemoryOffsets ==
    {U256_zero, <<1>>, <<31>>, <<32>>, <<33>>, <<64>>, <<1, 0, 1>>,
     [i \in 1..8 |-> 255], U256_MAX}

BaseCosts == {GasCost_ZERO, GasCost_FASTEST}

\* the memories the calls start from, with the gas their writes have used
MemorySeeds ==
    {[memory |-> Memory_new, used |-> 0]}
    \cup {[memory |-> o.evm.memory, used |-> o.evm.gas.used] :
            o \in mstore8([Evm_new(30000) EXCEPT !.stack = <<U256_MAX, <<3>> >>])}

TryExpandTo(offset, base_cost) ==
    /\ result # "Panic"
    /\ history.steps < MaxMemoryCalls
    /\ \E x \in try_expand_to(memory, offset, base_cost, gas) :
        /\ memory' = x.memory
        /\ gas' = x.gas
        /\ result' = x.err
        /\ returned' = IF x.err = "Ok" THEN Some(x.memory.word_size) ELSE None
    /\ last_call' = [name |-> "try_expand_to",
                     arg |-> Some([offset |-> offset, base_cost |-> base_cost])]
    /\ history' = [history EXCEPT !.steps = @ + 1]
    /\ UNCHANGED <<program_counter, access_list, bytecode, stack, storage>>

MemoryInit ==
    /\ \E l \in MemoryGasLimits, m \in MemorySeeds :
        /\ m.used <= l
        /\ memory = m.memory
        /\ gas = [limit |-> l, used |-> m.used]
        /\ history = [NoHistory EXCEPT !.gas_limit = l]
    /\ program_counter = 0
    /\ access_list = AccessList_new
    /\ bytecode = <<>>
    /\ stack = <<>>
    /\ storage = Storage_new
    /\ result = "Ok"
    /\ last_call = [name |-> "new", arg |-> None]
    /\ returned = None

MemoryNext == \E offset \in MemoryOffsets, base_cost \in BaseCosts : TryExpandTo(offset, base_cost)

MemorySpec == MemoryInit /\ [][MemoryNext]_vars

(***************************************************************************)
(* The Storage on its own: a host that holds a Storage, an AccessList, a   *)
(* Gas and a Stack pushes words and calls sload and sstore; returned is    *)
(* the value an Ok call returns.  history.steps counts the calls.          *)
(***************************************************************************)
MaxStorageCalls == 6

StorageGasLimits == {2000, 50000}

StorageWords == {U256_zero, U256_one}

StorageCall(name, o, ret) ==
    /\ result # "Panic"
    /\ history.steps < MaxStorageCalls
    /\ SetEvm(o.evm)
    /\ result' = o.result
    /\ returned' = IF o.result = "Ok" THEN ret ELSE None
    /\ last_call' = [name |-> name, arg |-> None]
    /\ history' = [history EXCEPT !.steps = @ + 1]

StoragePush(v) ==
    LET r == try_push(stack, v)
    IN  StorageCall("try_push", Outcome([Evm EXCEPT !.stack = r.stack], r.err), None)

Sload ==
    \E o \in sload(Evm) :
        StorageCall("sload", o, Some(storage_raw_get(storage, Top(stack, 0))))

Sstore ==
    \E o \in sstore(Evm) :
        StorageCall("sstore", o, Some(raw_set_returns(storage, Top(stack, 0))))

StorageInit ==
    /\ \E l \in StorageGasLimits :
        /\ gas = Gas_new(l)
        /\ history = [NoHistory EXCEPT !.gas_limit = l]
    /\ program_counter = 0
    /\ access_list = AccessList_new
    /\ bytecode = <<>>
    /\ memory = Memory_new
    /\ stack = <<>>
    /\ storage = Storage_new
    /\ result = "Ok"
    /\ last_call = [name |-> "new", arg |-> None]
    /\ returned = None

StorageNext ==
    \/ \E v \in StorageWords : StoragePush(v)
    \/ Sload
    \/ Sstore

StorageSpec == StorageInit /\ [][StorageNext]_vars

(***************************************************************************)
(* The numeric opcodes: a host that has appended PUSH32 instructions for   *)
(* the operands and then one opcode, and has stepped over the pushes,      *)
(* steps once more; before any step it also calls is_neg and signed_cmp    *)
(* on words of its own.                                                    *)
(***************************************************************************)
\* words around zero and around the two ends of the signed range
SignedWords ==
    {U256_zero, U256_one, U256_from(2), U256_from(3), U256_from(6), U256_from(7),
     U256_MAX, neg(U256_from(2)), neg(U256_from(3)), neg(U256_from(6)), neg(U256_from(7)),
     <<128>> \o [i \in 1..(WORD_BYTES - 1) |-> 0],
     <<128>> \o [i \in 1..(WORD_BYTES - 2) |-> 0] \o <<1>>,
     <<127>> \o [i \in 1..(WORD_BYTES - 1) |-> 255]}

\* the runs the exploration starts from: a new Evm, and one run per opcode and
\* operands, the first operand being the one pushed last
ArithSeeds ==
    LET Binary(op, a, b) ==
            [gas_limit |-> 1000,
             program |-> <<PushWord(b), PushWord(a), Instruction(op, None)>>,
             steps |-> 2]
        Ternary(op, a, b, n) ==
            [gas_limit |-> 1000,
             program |-> <<PushWord(n), PushWord(b), PushWord(a), Instruction(op, None)>>,
             steps |-> 3]
        Summands == {U256_zero, U256_one, U256_from(7), U256_MAX,
                     <<128>> \o [i \in 1..(WORD_BYTES - 1) |-> 0]}
        Moduli == {U256_zero, U256_one, U256_from(3), U256_from(7), U256_MAX}
        Indices == {U256_zero, U256_one, U256_from(2), U256_from(30), U256_from(31),
                    U256_from(32), U256_from(33), <<1, 0, 0, 0, 0>>,
                    <<1, 0, 0, 0, 0, 0, 0, 0, 0>>, U256_MAX}
        Numbers == {U256_zero, U256_one, <<127>>, <<128>>, <<255>>, <<127, 255>>,
                    <<128, 0>>, <<1, 128>>, <<128, 0, 0>>, U256_MAX,
                    <<128>> \o [i \in 1..(WORD_BYTES - 1) |-> 0],
                    <<127>> \o [i \in 1..(WORD_BYTES - 1) |-> 255]}
    IN  {[gas_limit |-> 1000, program |-> <<>>, steps |-> 0]}
        \cup {Binary(op, a, b) :
                 op \in {OpcodeId.SDIV, OpcodeId.SMOD, OpcodeId.SLT, OpcodeId.SGT},
                 a \in SignedWords, b \in SignedWords}
        \cup {Ternary(op, a, b, n) :
                 op \in {OpcodeId.ADDMOD, OpcodeId.MULMOD},
                 a \in Summands, b \in Summands, n \in Moduli}
        \cup {Binary(OpcodeId.SIGNEXTEND, i, x) : i \in Indices, x \in Numbers}

\* the host calls w.is_neg()
IsNeg(w) ==
    /\ history.steps = 0
    /\ last_call' = [name |-> "is_neg", arg |-> Some(w)]
    /\ returned' = Some(is_neg(w))
    /\ result' = "Ok"
    /\ UNCHANGED <<program_counter, access_list, bytecode, gas, memory, stack, storage,
                   history>>

\* the host calls a.signed_cmp(&b)
SignedCmp(a, b) ==
    /\ history.steps = 0
    /\ last_call' = [name |-> "signed_cmp", arg |-> Some(<<a, b>>)]
    /\ returned' = Some(signed_cmp(a, b))
    /\ result' = "Ok"
    /\ UNCHANGED <<program_counter, access_list, bytecode, gas, memory, stack, storage,
                   history>>

ArithInit == StartFrom(ArithSeeds)

ArithNext ==
    \/ Step
    \/ \E w \in SignedWords : IsNeg(w)
    \/ \E a \in SignedWords, b \in SignedWords : SignedCmp(a, b)

ArithSpec == ArithInit /\ [][ArithNext]_vars

(***************************************************************************)
(* The host loop: a host that has appended a program to a new Evm calls    *)
(* step while the program counter is below the length of the bytecode and  *)
(* no call has failed, and appends nothing more.  The loop keeps running   *)
(* while it can: weak fairness of its iteration.                           *)
(***************************************************************************)
MaxProgram == 3

\* the runs the loop starts from: each program of at most MaxProgram
\* instructions, with little gas and with plenty
LoopSeeds ==
    LET LoopInstructions ==
            {Instruction(op, None) :
                op \in {OpcodeId.PUSH0, OpcodeId.PC, OpcodeId.DUP1, OpcodeId.MSTORE8,
                        OpcodeId.SLOAD}}
            \cup {Instruction(OpcodeId.PUSH1, Some(Payload(<<1>>)))}
    IN  {[gas_limit |-> l, program |-> p, steps |-> 0] :
            l \in {5, 30000},
            p \in UNION {[1..n -> LoopInstructions] : n \in 1..MaxProgram}}

\* one iteration of the loop: while pc < bytecode.len() { step()? }
HostLoop ==
    /\ result = "Ok"
    /\ program_counter < Len(bytecode)
    /\ Step

LoopInit == StartFrom(LoopSeeds)

LoopSpec == LoopInit /\ [][HostLoop]_vars /\ WF_vars(HostLoop)

(***************************************************************************)
(* The claims                                                              *)
(***************************************************************************)
\* the program of the unit test test_evm: PUSH1 0x01, PUSH1 0x02, ADD
TestProgram ==
    <<Instruction(OpcodeId.PUSH1, Some(Payload(<<1>>))),
      Instruction(OpcodeId.PUSH1, Some(Payload(<<2>>))),
      Instruction(OpcodeId.ADD, None)>>

TestBytecode == PushAll(Evm_new(0), TestProgram).bytecode

\* C1: on a new Evm with a limit that covers the three static costs, after
\* the three instructions of test_evm are appended and before any other call,
\* every step made returns Ok, and after the third the stack is exactly <<3>>
\* and gas used is twice the static cost of PUSH1 plus that of ADD.
C1_TestEvm ==
    (/\ bytecode = TestBytecode
     /\ history.steps_at_push = 0
     /\ history.steps <= 3
     /\ gas.limit >= 2 * constant_gas_cost(OpcodeId.PUSH1) + constant_gas_cost(OpcodeId.ADD)
     /\ last_call.name = "step")
    => /\ result = "Ok"
       /\ history.steps = 3 =>
            /\ stack = <<U256_from(3)>>
            /\ gas.used = 2 * constant_gas_cost(OpcodeId.PUSH1) + constant_gas_cost(OpcodeId.ADD)

\* C2: while every instruction appended was well-formed and every step so far
\* returned Ok, the program counter is at most the bytecode length and, below
\* it, indexes an element flagged is_code.
C2_PcOnCode ==
    (history.well_formed /\ history.errors = 0)
    => /\ program_counter <= Len(bytecode)
       /\ program_counter < Len(bytecode) => bytecode[program_counter + 1].is_code

\* C3: push_instruction of a well-formed instruction appends the opcode byte
\* flagged is_code and then exactly n elements flagged not is_code, n the
\* payload length the opcode implies, and leaves the elements before unchanged.
C3_PushAppends ==
    [][(last_call'.name = "push_instruction" /\ history'.pushes = history.pushes + 1
        /\ WellFormed(last_call'.arg[1]))
       => LET i == last_call'.arg[1]
              n == PayloadLen(i.opcode)
              old == Len(bytecode)
          IN  /\ Len(bytecode') = old + 1 + n
              /\ SubSeq(bytecode', 1, old) = bytecode
              /\ bytecode'[old + 1] = BytecodeElement(i.opcode, TRUE)
              /\ \A k \in 1..n : ~bytecode'[old + 1 + k].is_code]_vars

\* C4: the stack never holds more than MAX_STACK_SIZE elements.
C4_StackBounded == Len(stack) <= MAX_STACK_SIZE

\* a step met a full stack and was refused
C4_Witness ==
    /\ last_call.name = "step"
    /\ result = "StackOverflow"
    /\ Len(stack) = MAX_STACK_SIZE

\* C5: try_push on a stack of MAX_STACK_SIZE elements returns StackOverflow and
\* leaves the stack as it is, and otherwise appends the word as the new top;
\* try_pop on an empty stack returns StackUnderflow and leaves it empty, and
\* otherwise returns the top and leaves exactly the elements below it.
C5_PushPop ==
    [][/\ (last_call'.name = "try_push" /\ history'.steps = history.steps + 1)
          => IF Len(stack) = MAX_STACK_SIZE
             THEN result' = "StackOverflow" /\ stack' = stack
             ELSE result' = "Ok" /\ stack' = Append(stack, last_call'.arg[1])
       /\ (last_call'.name = "try_pop" /\ history'.steps = history.steps + 1)
          => IF stack = <<>>
             THEN result' = "StackUnderflow" /\ stack' = <<>> /\ returned' = None
             ELSE /\ result' = "Ok"
                  /\ returned' = Some(stack[Len(stack)])
                  /\ stack' = SubSeq(stack, 1, Len(stack) - 1)]_vars

\* try_push was refused on a full stack
C5_Witness ==
    /\ last_call.name = "try_push"
    /\ result = "StackOverflow"
    /\ Len(stack) = MAX_STACK_SIZE

\* C6: try_swap(n) returns StackUnderflow on fewer than n + 2 elements, and
\* otherwise exchanges the top with the element n + 1 positions below it and
\* leaves the length and every other element unchanged.
C6_Swap ==
    [][(last_call'.name = "try_swap" /\ history'.steps = history.steps + 1)
       => LET n == last_call'.arg[1]
              top == Len(stack)
          IN  IF top < n + 2
              THEN result' = "StackUnderflow" /\ stack' = stack
              ELSE /\ result' = "Ok"
                   /\ Len(stack') = top
                   /\ stack'[top] = stack[top - (n + 1)]
                   /\ stack'[top - (n + 1)] = stack[top]
                   /\ \A k \in 1..top :
                        k \notin {top, top - (n + 1)} => stack'[k] = stack[k]]_vars

\* C7 as stated: try_dup(n) returns StackUnderflow on fewer than n + 1
\* elements, and otherwise pushes a copy of the element n positions below the
\* top, the elements already there staying in place.
C7_DupAsStated ==
    [][(last_call'.name = "try_dup" /\ history'.steps = history.steps + 1)
       => LET n == last_call'.arg[1]
          IN  IF Len(stack) < n + 1
              THEN result' = "StackUnderflow" /\ stack' = stack
              ELSE result' = "Ok" /\ stack' = Append(stack, stack[Len(stack) - n])]_vars

\* C7, amended: try_dup(n) returns StackUnderflow on fewer than n + 1
\* elements; on a stack of MAX_STACK_SIZE elements it returns StackOverflow
\* and leaves the stack as it is; otherwise it pushes a copy of the element n
\* positions below the top, the elements already there staying in place.
C7_Dup ==
    [][(last_call'.name = "try_dup" /\ history'.steps = history.steps + 1)
       => LET n == last_call'.arg[1]
          IN  IF Len(stack) < n + 1
              THEN result' = "StackUnderflow" /\ stack' = stack
              ELSE IF Len(stack) = MAX_STACK_SIZE
              THEN result' = "StackOverflow" /\ stack' = stack
              ELSE result' = "Ok" /\ stack' = Append(stack, stack[Len(stack) - n])]_vars

\* try_dup duplicated an element below the top
C7_Witness ==
    /\ last_call.name = "try_dup"
    /\ last_call.arg[1] > 0
    /\ result = "Ok"
    /\ Len(stack) > last_call.arg[1] + 1
    /\ stack[Len(stack)] # stack[Len(stack) - 1]

\* C8: gas used never exceeds the limit, the limit stays the value given to
\* Evm::new, and gas used never decreases.
C8_GasBounded ==
    /\ [](gas.used <= gas.limit /\ gas.limit = history.gas_limit)
    /\ [][gas'.used >= gas.used]_vars

\* a step was refused for want of gas after gas had been used
C8_Witness ==
    /\ last_call.name = "step"
    /\ result = "OutOfGas"
    /\ gas.used > 0

\* C9: use_gas(cost) with cost above left() returns OutOfGas and leaves used
\* unchanged, and with cost at most left() returns Ok and adds cost to used;
\* used is always the sum of the costs of the calls that returned Ok, and
\* left() the limit less that sum.
C9_UseGas ==
    /\ [](gas.used = history.charged /\ left(gas) = history.gas_limit - history.charged)
    /\ [][last_call'.name = "use_gas"
          => LET cost == last_call'.arg[1]
             IN  IF cost > left(gas)
                 THEN result' = "OutOfGas" /\ gas'.used = gas.used
                 ELSE result' = "Ok" /\ gas'.used = gas.used + cost]_vars

\* use_gas took exactly what was left, after an earlier charge
C9_Witness ==
    /\ last_call.name = "use_gas"
    /\ result = "Ok"
    /\ last_call.arg[1] > 0
    /\ gas.used > last_call.arg[1]
    /\ left(gas) = 0

\* C10: a step that returns Ok advances the program counter by 1, or by 1 + n
\* when the opcode is PUSHn with n in 1..32; a step that does not return Ok
\* and push_instruction leave it unchanged.
C10_PcAdvance ==
    [][LET adv == program_counter' - program_counter
       IN  IF history'.steps = history.steps + 1 /\ result' = "Ok"
           THEN LET opcode == bytecode[program_counter + 1].value
                IN  adv = IF OpcodeId.PUSH1 <= opcode /\ opcode <= OpcodeId.PUSH32
                          THEN 1 + (opcode - OpcodeId.PUSH0) ELSE 1
           ELSE adv = 0]_vars

\* a PUSH2 step returned Ok after an earlier step
C10_Witness ==
    /\ last_call.name = "step"
    /\ result = "Ok"
    /\ program_counter >= 4
    /\ bytecode[program_counter - 2] = BytecodeElement(OpcodeId.PUSH2, TRUE)
    /\ stack # <<>>
    /\ stack[Len(stack)] = <<1, 0>>

\* C12: a try_expand_to that returns Ok on a memory whose allocation does not
\* contain the offset sets the word count to ceil((offset + 1) / 32), so that
\* the offset is below word_size * 32 afterwards and the buffer is that many
\* words; from the empty memory, offset 0 gives one word of 32 zero bytes.
C12_ExpandCovers ==
    [][(/\ last_call'.name = "try_expand_to"
        /\ history'.steps = history.steps + 1
        /\ result' = "Ok"
        /\ LET offset == last_call'.arg[1].offset
           IN  ~(IsSmall(offset) /\ AsInt(offset) < memory.word_size * 32))
       => LET offset == last_call'.arg[1].offset
          IN  /\ IsSmall(offset)
              /\ memory'.word_size = AsInt(offset) \div 32 + 1
              /\ AsInt(offset) < memory'.word_size * 32
              /\ Len(memory'.inner) = memory'.word_size * 32
              /\ (memory.word_size = 0 /\ offset = U256_zero)
                   => memory'.inner = [i \in 1..32 |-> 0]]_vars

\* C14: try_expand_to with the offset below word_size * 32 returns Ok with the
\* current word count after charging exactly base_cost, or returns OutOfGas
\* (when base_cost is above what is left) charging nothing; either way the
\* word count and the buffer are unchanged.
C14_ExpandInside ==
    [][(/\ last_call'.name = "try_expand_to"
        /\ history'.steps = history.steps + 1
        /\ LET offset == last_call'.arg[1].offset
           IN  IsSmall(offset) /\ AsInt(offset) < memory.word_size * 32)
       => LET base_cost == last_call'.arg[1].base_cost
          IN  /\ memory' = memory
              /\ IF base_cost <= left(gas)
                 THEN /\ result' = "Ok"
                      /\ gas'.used = gas.used + base_cost
                      /\ returned' = Some(memory.word_size)
                 ELSE /\ result' = "OutOfGas"
                      /\ gas' = gas
                      /\ returned' = None]_vars

\* try_expand_to charged a base cost for an offset inside a memory that holds
\* a written byte
C14_Witness ==
    /\ last_call.name = "try_expand_to"
    /\ last_call.arg[1].offset = <<31>>
    /\ last_call.arg[1].base_cost = GasCost_FASTEST
    /\ result = "Ok"
    /\ returned = Some(1)
    /\ memory.word_size = 1
    /\ memory.inner[4] = 255
    /\ history.steps = 1

RoundTripBytecode == PushAll(Evm_new(0), RoundTripProgram).bytecode

\* C11: on a new Evm with enough gas, the steps of a program that pushes a
\* word v and offset 0, executes MSTORE, pushes offset 0 and executes MLOAD all
\* return Ok, and after the MLOAD the top of the stack is v (here v is the
\* word of all ones).
C11_RoundTrip ==
    (/\ Len(bytecode) >= Len(RoundTripBytecode)
     /\ SubSeq(bytecode, 1, Len(RoundTripBytecode)) = RoundTripBytecode
     /\ history.gas_limit = 30000
     /\ history.steps <= Len(RoundTripProgram)
     /\ last_call.name = "step")
    => /\ result = "Ok"
       /\ history.steps = Len(RoundTripProgram)
            => stack # <<>> /\ Top(stack, 0) = U256_MAX

C15_Sload ==
    [][(/\ history'.steps = history.steps + 1
        /\ OpcodeAt(Evm) = OpcodeId.SLOAD
        /\ result' = "Ok")
       => LET key == Top(stack, 0)
              charged == gas'.used - gas.used
          IN  /\ key \notin history.touched
                 => /\ charged = constant_gas_cost(OpcodeId.SLOAD) + GasCost_COLD_SLOAD
                    /\ stack' = Append(SubSeq(stack, 1, Len(stack) - 1),
                                       storage_raw_get(storage, key))
                    /\ storage_raw_get(storage, key) = U256_zero
                    /\ is_warm_slot(access_list', key)
              /\ history.last_sload = Some(key)
                 => charged = constant_gas_cost(OpcodeId.SLOAD) + GasCost_WARM_ACCESS]_vars

\* the second of two SLOAD steps of slot 0 returned Ok, on a new Evm
C15_Witness ==
    /\ last_call.name = "step"
    /\ result = "Ok"
    /\ history.steps = 3
    /\ history.last_sload = Some(U256_zero)
    /\ SubSeq(bytecode, 1, 3) = PushAll(Evm_new(0), LoadTwiceProgram).bytecode
    /\ gas.used = constant_gas_cost(OpcodeId.PUSH0)
                  + 2 * constant_gas_cost(OpcodeId.SLOAD)
                  + GasCost_COLD_SLOAD + GasCost_WARM_ACCESS

C17_StoreLoad ==
    [][(/\ history'.steps = history.steps + 1
        /\ OpcodeAt(Evm) = OpcodeId.SLOAD
        /\ result' = "Ok"
        /\ Top(stack, 0) \in DOMAIN history.written)
       => LET k == Top(stack, 0)
          IN  /\ stack' = Append(SubSeq(stack, 1, Len(stack) - 1), history.written[k])
              /\ gas'.used - gas.used
                   = constant_gas_cost(OpcodeId.SLOAD) + GasCost_WARM_ACCESS]_vars

\* an SLOAD step pushed the zero that the second of two SSTORE steps had
\* written over a non-zero value
C17_Witness ==
    /\ last_call.name = "step"
    /\ result = "Ok"
    /\ history.last_sload # None
    /\ history.last_sload[1] \in DOMAIN history.written
    /\ history.written[history.last_sload[1]] = U256_zero
    /\ Top(stack, 0) = U256_zero
    /\ SubSeq(bytecode, 1, Len(StoreTwiceProgram))
         = PushAll(Evm_new(0), StoreTwiceProgram).bytecode

\* C18: a warm slot stays warm in every later state; a step changes the access
\* list only when it is an SLOAD or SSTORE step that returns Ok, and then by
\* adding the slot it popped, which changes nothing when that slot is already
\* warm; so the warm slots are the slots of the SLOAD and SSTORE steps that
\* returned Ok, and a failing step warms none.
C18_AccessList ==
    /\ [](access_list = history.touched)
    /\ [][/\ access_list \subseteq access_list'
          /\ access_list' # access_list
               => /\ history'.steps = history.steps + 1
                  /\ result' = "Ok"
                  /\ OpcodeAt(Evm) \in {OpcodeId.SLOAD, OpcodeId.SSTORE}
                  /\ access_list' = access_list \cup {Top(stack, 0)}
          /\ (/\ history'.steps = history.steps + 1
              /\ result' = "Ok"
              /\ OpcodeAt(Evm) \in {OpcodeId.SLOAD, OpcodeId.SSTORE}
              /\ Top(stack, 0) \in access_list)
               => access_list' = access_list]_vars

\* a second slot was warmed after the first one had been marked twice
C18_Witness ==
    /\ last_call.name = "step"
    /\ result = "Ok"
    /\ access_list = {U256_zero, U256_one}
    /\ SubSeq(bytecode, 1, Len(StoreLoadProgram))
         = PushAll(Evm_new(0), StoreLoadProgram).bytecode
    /\ history.steps = Len(StoreLoadProgram)

\* C19: a step of MLOAD, MSTORE, MSTORE8, SLOAD or SSTORE that returns OutOfGas
\* has popped its operands, one for MLOAD and SLOAD and two for the others,
\* and changes nothing else: the gas, the memory, the storage, the access
\* list and the program counter are those of before the step.
C19_OutOfGasOperands ==
    [][(/\ history'.steps = history.steps + 1
        /\ OpcodeAt(Evm) \in {OpcodeId.MLOAD, OpcodeId.MSTORE, OpcodeId.MSTORE8,
                              OpcodeId.SLOAD, OpcodeId.SSTORE}
        /\ result' = "OutOfGas")
         => LET n == IF OpcodeAt(Evm) \in {OpcodeId.MLOAD, OpcodeId.SLOAD} THEN 1 ELSE 2
            IN  /\ Len(stack) >= n
                /\ stack' = SubSeq(stack, 1, Len(stack) - n)
                /\ gas' = gas
                /\ memory' = memory
                /\ storage' = storage
                /\ access_list' = access_list
                /\ program_counter' = program_counter]_vars

\* the MSTORE8 of ByteProgram ran out of gas: its two operands are gone, the
\* word below them is left, and the gas is that of the four steps before it
C19_Witness ==
    /\ last_call.name = "step"
    /\ result = "OutOfGas"
    /\ history.steps = 5
    /\ history.errors = 1
    /\ program_counter = 4
    /\ OpcodeAt(Evm) = OpcodeId.MSTORE8
    /\ stack = <<U256_zero>>
    /\ gas.used = 9
    /\ memory.word_size = 0
    /\ SubSeq(bytecode, 1, Len(ByteProgram))
         = PushAll(Evm_new(0), ByteProgram).bytecode

\* C20: a step of an arithmetic, bitwise or comparison opcode (ADD to
\* SIGNEXTEND, LT to EQ, AND, OR, XOR, NOT, BYTE) that returns OutOfGas
\* leaves the stack, the gas and the program counter as they were before it.
C20_OutOfGasAtomic ==
    [][(/\ history'.steps = history.steps + 1
        /\ \/ OpcodeAt(Evm) \in OpcodeId.ADD..OpcodeId.SIGNEXTEND
           \/ OpcodeAt(Evm) \in OpcodeId.LT..OpcodeId.EQ
           \/ OpcodeAt(Evm) \in {OpcodeId.AND, OpcodeId.OR, OpcodeId.XOR,
                                 OpcodeId.NOT, OpcodeId.BYTE}
        /\ result' = "OutOfGas")
         => /\ stack' = stack
            /\ gas' = gas
            /\ program_counter' = program_counter]_vars

\* an ADD found 1 unit of gas left after PUSH0 and PC: both words are still
\* on the stack
C20_Witness ==
    /\ last_call.name = "step"
    /\ result = "OutOfGas"
    /\ OpcodeAt(Evm) = OpcodeId.ADD
    /\ program_counter = 2
    /\ stack = <<U256_zero, U256_one>>
    /\ gas.limit = 5
    /\ gas.used = 4
    /\ history.steps = 3

\* C21: once a step has returned OutOfGas, no later step returns Ok and the
\* program counter keeps its value, whatever the host appends to the bytecode
\* and whatever is left on the stack.
C21_GasHalts ==
    [][history.out_of_gas
         => /\ ~(history'.steps = history.steps + 1 /\ result' = "Ok")
            /\ program_counter' = program_counter]_vars

\* C22: for every dividend a and every divisor b # 0, an SMOD step that
\* returns Ok pushes the word of magnitude |a| mod |b| that has the sign of a
\* when it is not zero, whatever the sign of b; SMOD(-7, 3) = -1 and
\* SDIV(-6, 2) = -3.
C22_SignedModulo ==
    [][(/\ history'.steps = history.steps + 1
        /\ result' = "Ok"
        /\ OpcodeAt(Evm) \in {OpcodeId.SDIV, OpcodeId.SMOD})
         => LET a == Top(stack, 0)
                b == Top(stack, 1)
                magnitude == rem(IF is_neg(a) THEN neg(a) ELSE a,
                                 IF is_neg(b) THEN neg(b) ELSE b)
            IN  /\ (OpcodeAt(Evm) = OpcodeId.SMOD /\ b # U256_zero)
                     => Top(stack', 0) = IF is_neg(a) THEN neg(magnitude) ELSE magnitude
                /\ (OpcodeAt(Evm) = OpcodeId.SMOD /\ a = neg(U256_from(7))
                        /\ b = U256_from(3))
                     => Top(stack', 0) = U256_MAX
                /\ (OpcodeAt(Evm) = OpcodeId.SDIV /\ a = neg(U256_from(6))
                        /\ b = U256_from(2))
                     => Top(stack', 0) = neg(U256_from(3))]_vars

\* C23: an SLT step that returns Ok pushes 1 when the top word a is below the
\* second word b as two's-complement numbers (a word of 2^255 or more standing
\* for itself minus 2^256) and 0 otherwise; an SGT step pushes 1 when a is
\* above b and 0 otherwise; two words of the same sign are ordered as their
\* unsigned values, both negative included.
C23_SignedOrder ==
    [][(/\ history'.steps = history.steps + 1
        /\ result' = "Ok"
        /\ OpcodeAt(Evm) \in {OpcodeId.SLT, OpcodeId.SGT})
         => LET a == Top(stack, 0)
                b == Top(stack, 1)
                below(x, y) == \/ byte(x, 31) >= 128 /\ byte(y, 31) < 128
                               \/ /\ (byte(x, 31) >= 128) = (byte(y, 31) >= 128)
                                  /\ cmp(x, y) < 0
                holds == IF OpcodeAt(Evm) = OpcodeId.SLT THEN below(a, b) ELSE below(b, a)
            IN  Top(stack', 0) = IF holds THEN U256_one ELSE U256_zero]_vars

\* C24: an ADDMOD or MULMOD step that returns Ok has popped a, b and the
\* modulus and pushes 0 when the modulus is 0, and otherwise the remainder of
\* the exact sum a + b, respectively the exact product a * b, by the modulus,
\* also when that sum or product is 2^256 or more.
C24_ModularExact ==
    [][(/\ history'.steps = history.steps + 1
        /\ result' = "Ok"
        /\ OpcodeAt(Evm) \in {OpcodeId.ADDMOD, OpcodeId.MULMOD})
         => LET a == Top(stack, 0)
                b == Top(stack, 1)
                modulus == Top(stack, 2)
                exact == IF OpcodeAt(Evm) = OpcodeId.ADDMOD THEN BigAdd(a, b)
                         ELSE BigMul(a, b)
            IN  /\ stack' = Append(SubSeq(stack, 1, Len(stack) - 3), Top(stack', 0))
                /\ Top(stack', 0) = IF modulus = U256_zero THEN U256_zero
                                    ELSE rem(exact, modulus)]_vars

\* C25: a SIGNEXTEND step that returns Ok has popped the byte index i and the
\* value x; when i < 32, compared as a 256-bit word, it pushes x with every
\* bit above bit 8 * i + 7 made equal to that bit, byte 0 being the least
\* significant one; when i >= 32 it pushes x.
C25_SignExtend ==
    [][(/\ history'.steps = history.steps + 1
        /\ result' = "Ok"
        /\ OpcodeAt(Evm) = OpcodeId.SIGNEXTEND)
         => LET i == Top(stack, 0)
                x == Top(stack, 1)
                sign_bit == 8 * AsInt(i) + 7
                extended == IF bitand(x, shl(U256_one, sign_bit)) # U256_zero
                            THEN bitor(x, shl(U256_MAX, sign_bit))
                            ELSE bitand(x, bitnot(shl(U256_MAX, sign_bit + 1)))
            IN  /\ stack' = Append(SubSeq(stack, 1, Len(stack) - 2), Top(stack', 0))
                /\ Top(stack', 0) = IF cmp(i, U256_from(32)) < 0 THEN extended ELSE x]_vars

\* C26: when a step of MLOAD, MSTORE or MSTORE8 gets past try_expand_to, the
\* bytes it reads or writes, the 32 from the offset for MLOAD and MSTORE and
\* the one at the offset for MSTORE8, are inside the buffer, whatever the
\* offset: the step does not panic on an index out of range.
C26_AccessInside ==
    [][(/\ history'.steps = history.steps + 1
        /\ OpcodeAt(Evm) \in {OpcodeId.MLOAD, OpcodeId.MSTORE, OpcodeId.MSTORE8}
        /\ result' \in {"Ok", "Panic"})
         => LET offset == Top(stack, 0)
                len == IF OpcodeAt(Evm) = OpcodeId.MSTORE8 THEN 1 ELSE WORD_BYTES
            IN  /\ IsSmall(offset)
                /\ AsInt(offset) + len <= Len(memory'.inner)
                /\ result' = "Ok"]_vars

\* C27: is_neg(w) holds exactly when w >= 2^255, and signed_cmp(a, b) is Less
\* when only a is negative, Greater when only b is, the unsigned order of a
\* and b when neither is, and the reverse of their unsigned order when both
\* are: of two negative words the one with the larger unsigned value is Less,
\* as the unit tests assert for 0xff..fe and 0x80..01.
C27_SignedCmp ==
    LET negative(w) == cmp(w, <<128>> \o [i \in 1..(WORD_BYTES - 1) |-> 0]) >= 0
    IN  /\ last_call.name = "is_neg"
             => returned = Some(negative(last_call.arg[1]))
        /\ last_call.name = "signed_cmp"
             => LET a == last_call.arg[1][1]
                    b == last_call.arg[1][2]
                IN  returned = Some(IF negative(a) /\ ~negative(b) THEN -1
                                    ELSE IF ~negative(a) /\ negative(b) THEN 1
                                    ELSE IF ~negative(a) THEN cmp(a, b)
                                    ELSE IF cmp(a, b) > 0 THEN -1
                                    ELSE IF cmp(a, b) < 0 THEN 1
                                    ELSE 0)

\* signed_cmp was called on 0xff..fe and 0x80..01 and answered Less
C27_Witness ==
    /\ last_call.name = "signed_cmp"
    /\ last_call.arg = Some(<<neg(U256_from(2)),
                              <<128>> \o [i \in 1..(WORD_BYTES - 2) |-> 0] \o <<1>>>>)
    /\ returned = Some(-1)

\* C28: a step of a two-operand arithmetic, bitwise or comparison opcode on a
\* stack of exactly one element, with gas for its static cost, returns
\* StackUnderflow and is not rolled back: the static cost is charged and the
\* one operand is gone, while the program counter, the memory, the storage
\* and the access list are as before.
C28_UnderflowKept ==
    [][(/\ history'.steps = history.steps + 1
        /\ OpcodeAt(Evm) \in {OpcodeId.ADD, OpcodeId.MUL, OpcodeId.SUB, OpcodeId.DIV,
                              OpcodeId.SDIV, OpcodeId.MOD, OpcodeId.SMOD,
                              OpcodeId.SIGNEXTEND, OpcodeId.LT, OpcodeId.GT, OpcodeId.SLT,
                              OpcodeId.SGT, OpcodeId.EQ, OpcodeId.AND, OpcodeId.OR,
                              OpcodeId.XOR, OpcodeId.BYTE}
        /\ Len(stack) = 1
        /\ gas.limit - gas.used >= constant_gas_cost(OpcodeAt(Evm)))
         => /\ result' = "StackUnderflow"
            /\ gas' = [gas EXCEPT !.used = @ + constant_gas_cost(OpcodeAt(Evm))]
            /\ stack' = <<>>
            /\ program_counter' = program_counter
            /\ memory' = memory
            /\ storage' = storage
            /\ access_list' = access_list]_vars

\* an ADD found one word, pushed by PUSH0, and the 3 units of gas it costs
C28_Witness ==
    /\ last_call.name = "step"
    /\ result = "StackUnderflow"
    /\ OpcodeAt(Evm) = OpcodeId.ADD
    /\ program_counter = 1
    /\ bytecode[1] = BytecodeElement(OpcodeId.PUSH0, TRUE)
    /\ stack = <<>>
    /\ gas = [limit |-> 5, used |-> 5]
    /\ history.steps = 2

\* C29: for a fixed bytecode, the loop that calls step while the program
\* counter is below the length of the bytecode and stops at the first error
\* comes to an end, after at most as many successful steps as the bytecode
\* has elements, since a step that returns Ok leaves the program counter
\* larger than it was.
C29_LoopTerminates ==
    /\ <>[](~(result = "Ok" /\ program_counter < Len(bytecode)))
    /\ [](history.steps - history.errors <= Len(bytecode))
    /\ [][result' = "Ok" => program_counter' > program_counter]_vars

\* the loop ran three steps without an error and left at the end of the bytecode
C29_Witness ==
    /\ last_call.name = "step"
    /\ result = "Ok"
    /\ history.steps = MaxProgram
    /\ history.errors = 0
    /\ program_counter = Len(bytecode)
    /\ Len(stack) = MaxProgram

====
